---- MODULE Spec2Model ----
(***************************************************************************)
(* The notebook-output webview bridge (outputWebviewPreload): the renderer *)
(* registry, the kernel preload manager, the live Output list and the      *)
(* fallback-rendering algorithm, as a state machine.  Asynchronous code is *)
(* cut at its await points: an action is what runs, uninterrupted, between *)
(* two awaits on the single event loop.                                    *)
(***************************************************************************)
EXTENDS Integers, Sequences, FiniteSets, TLC

(* ------------------------------ bounds --------------------------------- *)
MaxInst == 5
MaxListLen == 2
MaxItems == 3
MaxRenders == 2
MaxLoads == 2
MaxOutputs == 3
MaxStyles == 2
MaxDepth == 2
MaxCellRenders == 3
MaxRerenders == 4

(* ----------------------------- universes ------------------------------- *)
None == "none"
NoRef == 0

RendererIds == {"r1", "r2"}

\* a RendererMetadata value
Meta(id, uri, ext, msg, mimes) ==
    [id |-> id, uri |-> uri, extends |-> ext, requiresMessaging |-> msg, mimeTypes |-> mimes]

BaseMeta(id) == Meta(id, "ok.js", None, FALSE, <<"x", "y">>)

\* the base metadata of an id and one variant per field the equality rule reads
RegistryMetas ==
    { BaseMeta("r1"),
      Meta("r1", "ok2.js", None, FALSE, <<"x", "y">>),
      Meta("r1", "ok.js", "base", FALSE, <<"x", "y">>),
      Meta("r1", "ok.js", None, TRUE, <<"x", "y">>),
      Meta("r1", "ok.js", None, FALSE, <<"y", "x">>),
      Meta("r1", "ok.js", None, FALSE, <<"x">>),
      BaseMeta("r2") }

SeqsUpTo(S, n) == UNION { [1..k -> S] : k \in 0..n }

RegistryLists == SeqsUpTo(RegistryMetas, MaxListLen)

Range(s) == { s[i] : i \in DOMAIN s }

Min(S) == CHOOSE m \in S : \A n \in S : m <= n

(* ------------------------------- state --------------------------------- *)
VARIABLES
    phase,       \* position of outputWebviewPreload itself: "preloading", "running", "failed"
    listeners,   \* the window events for which addEventListener has installed a listener
    rootStyle,   \* document.documentElement.style: its declarations, in order
    renderers,   \* the registry Map in insertion order: a sequence of Renderer handles
    instances,   \* the Renderer objects: handle -> record, or NoInst for a free handle
    preloads,    \* kernelPreloads.preloads: uri -> index of the load call whose promise is stored
    loads,       \* every kernelPreloads.load call made so far
    outputs,     \* the live Output list: a sequence of Output handles
    outputObjs,  \* the Output objects: handle -> record, or NoOut
    renders,     \* every renderers.render invocation made so far
    msg,         \* the inbound message (or window event) the last step handled, NoMsg for
                 \* any other step
    statics,     \* the load calls made for ctx.staticPreloadsData, which set-up awaits
    images,      \* every <img> element a renderer has created: whether it has fired load or
                 \* error, and the height report whose resolve is its onload/onerror
    reports,     \* the height reports onRenderCompleted has put off until images have loaded
    cell,        \* the host's side: the outputIds of cell.outputs, in order
    observers,   \* the number of ResizeObservers observing document.body
    fx,          \* what the last step did to the outside: module hooks called, messages posted
    call         \* the last call made to a chat agent, with its input and its outcome

vars == <<phase, listeners, rootStyle, renderers, instances, preloads, loads, outputs, outputObjs, renders, msg, statics,
          images, reports, cell, observers, fx, call>>

\* an entry of fx: an operation on the outside, the Renderer and Output it concerns
Fx(op, inst, out, arg) == [op |-> op, inst |-> inst, out |-> out, arg |-> arg]

NoMsg == [type |-> "none"]

\* no agent has been called
NoCall == [agent |-> "none"]

NoInst == [live |-> FALSE]
NoOut == [live |-> FALSE]

\* new Renderer(data): no module loaded, never activated
NewRenderer(data) ==
    [live |-> TRUE, data |-> data, api |-> FALSE, activations |-> 0, channels |-> 0]

\* The mutable state as one value, so that a handler is a composition of functions on it.
Cur == [phase |-> phase, listeners |-> listeners, rootStyle |-> rootStyle,
        renderers |-> renderers, instances |-> instances,
        preloads |-> preloads, loads |-> loads, outputs |-> outputs,
        outputObjs |-> outputObjs, renders |-> renders, images |-> images,
        reports |-> reports, cell |-> cell, observers |-> observers, msg |-> NoMsg,
        fx |-> <<>>]

(* ------------------------- renderer registry --------------------------- *)

\* position of id in the Map's insertion order, 0 when absent
PosOf(reg, heap, id) ==
    LET P == { p \in DOMAIN reg : heap[reg[p]].data.id = id }
    IN IF P = {} THEN 0 ELSE Min(P)

\* renderers.getRenderer(id): the handle registered under id, NoRef when absent
getRenderer(s, id) ==
    LET p == PosOf(s.renderers, s.instances, id)
    IN IF p = 0 THEN NoRef ELSE s.renderers[p]

RECURSIVE MimesEqualFrom(_, _, _)
MimesEqualFrom(a, b, i) ==
    IF i > Len(a) THEN TRUE
    ELSE IF a[i] # b[i] THEN FALSE
    ELSE MimesEqualFrom(a, b, i + 1)

\* a rendererEqual that compares the MIME types as sets
rendererEqualUnordered(a, b) ==
    /\ a.id = b.id /\ a.uri = b.uri /\ a.extends = b.extends
    /\ a.requiresMessaging = b.requiresMessaging
    /\ Range(a.mimeTypes) = Range(b.mimeTypes)

rendererEqual(a, b) ==
    IF a.id # b.id \/ a.uri # b.uri \/ a.extends # b.extends
       \/ a.requiresMessaging # b.requiresMessaging THEN FALSE
    ELSE IF Len(a.mimeTypes) # Len(b.mimeTypes) THEN FALSE
    ELSE MimesEqualFrom(a.mimeTypes, b.mimeTypes, 1)

\* handles an object created now may not take: those some reference still reaches
InUse(s) == { h \in 1..MaxInst : s.instances[h].live }

CanAlloc(s, n) == Cardinality(InUse(s)) + n <= MaxInst

\* this.renderers.set(renderer.id, new Renderer(renderer))
addRenderer(s, data) ==
    LET h == Min((1..MaxInst) \ InUse(s))
        p == PosOf(s.renderers, s.instances, data.id)
    IN [s EXCEPT !.instances = [@ EXCEPT ![h] = NewRenderer(data)],
                 !.renderers = IF p = 0 THEN Append(@, h) ELSE [@ EXCEPT ![p] = h],
                 !.fx = Append(@, Fx("new Renderer", h, NoRef, None))]

RECURSIVE UpdateEach(_, _)
UpdateEach(s, L) ==
    IF L = <<>> THEN s
    ELSE LET existing == getRenderer(s, Head(L).id)
         IN IF existing # NoRef /\ rendererEqual(s.instances[existing].data, Head(L))
            THEN UpdateEach(s, Tail(L))
            ELSE UpdateEach(addRenderer(s, Head(L)), Tail(L))

\* an updateRendererData without its second loop
updateRendererDataNoRemoval(s, L) == UpdateEach(s, L)

updateRendererData(s, L) ==
    LET oldKeys == { s.instances[h].data.id : h \in Range(s.renderers) }
        newKeys == { L[i].id : i \in DOMAIN L }
        t == UpdateEach(s, L)
        Keep(h) == ~(t.instances[h].data.id \in oldKeys \ newKeys)
    IN [t EXCEPT !.renderers = SelectSeq(@, Keep)]

(* ------------------------ kernel preload manager ----------------------- *)

PreloadUris == {"p_ok.js", "p_noimport.js", "p_noactivate.js", "p_badactivate.js"}

\* What the module behind a preload uri does: the import may fail, the module may export
\* no activate function, activate may fail, or everything works.
PreloadModuleKind(uri) ==
    CASE uri = "p_noimport.js" -> "importFails"
      [] uri = "p_noactivate.js" -> "noActivate"
      [] uri = "p_badactivate.js" -> "activateFails"
      [] OTHER -> "ok"

\* Promise.all over promises in the given states
PromiseAll(states) ==
    IF "rejected" \in states THEN "rejected"
    ELSE IF states \subseteq {"fulfilled"} THEN "fulfilled"
    ELSE "pending"

\* p.catch(err => err)
CatchErr(state) == IF state = "rejected" THEN "fulfilled" ELSE state

\* the promise of runKernelPreload(uri) for a load call
RunState(l) ==
    CASE l.run = "ok" -> "fulfilled"
      [] l.run = "failed" -> "rejected"
      [] OTHER -> "pending"

RECURSIVE LoadState(_, _)
\* Promise.all over the promises themselves, their rejections not caught
waitForAllCurrentUncaught(ls, D) == PromiseAll({ LoadState(ls, d) : d \in D })

\* Promise.all(P.map(p => p.catch(err => err))) over the promises of the load calls in D
waitForAllCurrent(ls, D) == PromiseAll({ CatchErr(LoadState(ls, d)) : d \in D })

\* the promise load() stored: Promise.all([runKernelPreload(uri), this.waitForAllCurrent()])
LoadState(ls, i) == PromiseAll({ RunState(ls[i]), waitForAllCurrent(ls, ls[i].deps) })

\* [...this.preloads.values()]
Tracked(s) == { s.preloads[u] : u \in PreloadUris } \ {NoRef}

\* a load that starts the module and leaves the insertion into the map to a later turn
loadUntracked(s, uri) ==
    [s EXCEPT !.loads = Append(@, [uri |-> uri, deps |-> Tracked(s), run |-> "import"])]

\* kernelPreloads.load(uri)
load(s, uri) ==
    LET l == [uri |-> uri, deps |-> Tracked(s), run |-> "import"]
    IN [s EXCEPT !.loads = Append(@, l), !.preloads = [@ EXCEPT ![uri] = Len(s.loads) + 1]]

RECURSIVE loadAll(_, _)
loadAll(s, uris) == IF uris = <<>> THEN s ELSE loadAll(load(s, Head(uris)), Tail(uris))

\* activateModuleKernelPreload after `await __import`
preloadImported(s, i) ==
    LET k == PreloadModuleKind(s.loads[i].uri)
    IN CASE k = "importFails" -> [s EXCEPT !.loads[i].run = "failed"]
         [] k = "noActivate" -> [s EXCEPT !.loads[i].run = "ok"]
         [] k = "activateFails" ->
              [s EXCEPT !.loads[i].run = "failed",
                        !.fx = Append(@, Fx("activatePreload", NoRef, NoRef, s.loads[i].uri))]
         [] OTHER ->
              [s EXCEPT !.loads[i].run = "activate",
                        !.fx = Append(@, Fx("activatePreload", NoRef, NoRef, s.loads[i].uri))]

\* the promise returned by module.activate(...) fulfils
preloadActivated(s, i) == [s EXCEPT !.loads[i].run = "ok"]

(* ---------------------------- root style ------------------------------- *)

\* A property name is the sequence of its parts: <<"--", "notebook-", "a">> is
\* '--notebook-a', <<"--", "foo">> is '--foo', <<"color">> is 'color'.
\* property.startsWith('--notebook-')
StartsWithNotebook(property) ==
    Len(property) >= 2 /\ property[1] = "--" /\ property[2] = "notebook-"

\* `--${name}`
CssName(name) == <<"--">> \o name

Declared(style) == { style[i].name : i \in DOMAIN style }

\* CSSStyleDeclaration.getPropertyValue: "" for a property that is not declared
ValueOf(style, property) ==
    IF property \in Declared(style)
    THEN style[CHOOSE i \in DOMAIN style : style[i].name = property].value
    ELSE ""

\* CSSStyleDeclaration.removeProperty
removeProperty(style, property) == SelectSeq(style, LAMBDA d : d.name # property)

\* CSSStyleDeclaration.setProperty: an empty value removes the declaration
setProperty(style, property, value) ==
    IF value = "" THEN removeProperty(style, property)
    ELSE IF property \in Declared(style)
    THEN [i \in DOMAIN style |->
             IF style[i].name = property THEN [name |-> property, value |-> value]
             ELSE style[i]]
    ELSE Append(style, [name |-> property, value |-> value])

RECURSIVE removeForward(_, _)
removeForward(style, i) ==
    IF i > Len(style) THEN style
    ELSE IF StartsWithNotebook(style[i].name)
    THEN removeForward(removeProperty(style, style[i].name), i + 1)
    ELSE removeForward(style, i + 1)

\* the removal loop run from the first declaration up
removeNotebookPropertiesForward(style, i) == removeForward(style, 1)

RECURSIVE removeNotebookProperties(_, _)
\* for (let i = documentStyle.length - 1; i >= 0; i--): i counts from Len(style) down to 1
removeNotebookProperties(style, i) ==
    IF i = 0 THEN style
    ELSE IF i <= Len(style) /\ StartsWithNotebook(style[i].name)
    THEN removeNotebookProperties(removeProperty(style, style[i].name), i - 1)
    ELSE removeNotebookProperties(style, i - 1)

RECURSIVE setEach(_, _)
\* for (const [name, value] of Object.entries(event.data.styles)) setProperty(`--${name}`, value)
setEach(style, styles) ==
    IF styles = <<>> THEN style
    ELSE setEach(setProperty(style, CssName(Head(styles).name), Head(styles).value),
                 Tail(styles))

(* ------------------------------ wheel events --------------------------- *)

\* An Element on the path from the event target to the document: its vertical scroll
\* metrics and overflow-y, and whether it can still be scrolled sideways, either way.
Node(scrollTop, clientHeight, scrollHeight, overflowY, roomX) ==
    [scrollTop |-> scrollTop, clientHeight |-> clientHeight, scrollHeight |-> scrollHeight,
     overflowY |-> overflowY, roomX |-> roomX]

RECURSIVE shouldHandleScrollAnyRoom(_, _)
\* a loop that takes any room below as room to scroll, without the threshold of 2
shouldHandleScrollAnyRoom(event, i) ==
    IF i > Len(event.path) THEN FALSE
    ELSE LET node == event.path[i]
         IN IF event.deltaY < 0 /\ node.scrollTop > 0 THEN TRUE
            ELSE IF event.deltaY > 0 /\ node.scrollTop + node.clientHeight < node.scrollHeight
            THEN IF node.overflowY \in {"hidden", "visible"}
                 THEN shouldHandleScrollAnyRoom(event, i + 1)
                 ELSE TRUE
            ELSE shouldHandleScrollAnyRoom(event, i + 1)

RECURSIVE shouldHandleScrollFrom(_, _)
\* the loop of shouldHandleScroll over the Elements from the target up; the node after the
\* last Element is the document, which is no Element
shouldHandleScrollFrom(event, i) ==
    IF i > Len(event.path) THEN FALSE
    ELSE LET node == event.path[i]
         IN IF event.deltaY < 0 /\ node.scrollTop > 0 THEN TRUE
            ELSE IF event.deltaY > 0 /\ node.scrollTop + node.clientHeight < node.scrollHeight
            THEN IF node.scrollHeight - node.scrollTop - node.clientHeight < 2
                 THEN shouldHandleScrollFrom(event, i + 1)
                 ELSE IF node.overflowY \in {"hidden", "visible"}
                 THEN shouldHandleScrollFrom(event, i + 1)
                 ELSE TRUE
            ELSE shouldHandleScrollFrom(event, i + 1)

\* shouldHandleScroll(event)
shouldHandleScroll(event) == shouldHandleScrollFrom(event, 1)

\* handleWheel(event)
handleWheel(s, event) ==
    IF event.defaultPrevented \/ shouldHandleScroll(event) THEN s
    ELSE [s EXCEPT !.fx = Append(@, Fx("post did-scroll-wheel", NoRef, NoRef,
                                       [deltaX |-> event.deltaX, deltaY |-> event.deltaY]))]

(* ------------------------------- outputs ------------------------------- *)

Mimes == {"x", "y", "z"}

\* What an Output's element holds: nothing, the content a renderer made of an item, what
\* a renderer left when it threw, or an error block.  img: the <img> in it, 0 for none.
Mount(kind, item) == [kind |-> kind, item |-> item, img |-> 0]

\* content with an <img> element in it
MountWithImage(item, img) == [kind |-> "content", item |-> item, img |-> img]

EmptyMount == Mount("empty", 0)

\* new Output(output, items): renderedItem and renderer are declared and left undefined
NewOutput(id, items) ==
    [live |-> TRUE, outputId |-> id, allItems |-> items, renderedItem |-> 0,
     renderer |-> NoRef, mount |-> EmptyMount, attached |-> TRUE]

OutInUse(s) == { h \in 1..MaxOutputs : s.outputObjs[h].live }

\* Output.findItemToRender(preferredMimetype): the index of the item in allItems
findItemToRender(o, preferredMimetype) ==
    LET hit == { i \in DOMAIN o.allItems : o.allItems[i] = preferredMimetype }
    IN IF preferredMimetype # None /\ hit # {} THEN Min(hit)
       ELSE IF o.renderedItem # 0 THEN o.renderedItem
       ELSE 1

(* --------------------------- renderer modules -------------------------- *)

\* What the module behind a renderer entrypoint does.  "picky.js" refuses items of mime "x"
\* with the fallback error and renders every other item; "img.js" renders an item as
\* content with an <img> element that is still loading.
RendererModuleKind(uri) ==
    CASE uri = "fallback.js" -> "fallback"
      [] uri = "fatal.js" -> "fatal"
      [] uri = "noimport.js" -> "importFails"
      [] uri = "badactivate.js" -> "activateThrows"
      [] uri = "picky.js" -> "picky"
      [] uri = "img.js" -> "image"
      [] OTHER -> "ok"

\* rendererApi.renderOutputItem(item, element, signal) of that module: "ok" (returns),
\* "fallback" (throws an Error named renderFallbackErrorName) or "fatal" (throws another error)
RenderOutcome(uri, mime) ==
    LET k == RendererModuleKind(uri)
    IN CASE k = "fallback" -> "fallback"
         [] k = "fatal" -> "fatal"
         [] k = "picky" -> IF mime = "x" THEN "fallback" ELSE "ok"
         [] OTHER -> "ok"

(* ------------------------------ rendering ------------------------------ *)

\* a findRenderer that takes the preferred renderer only if it lists the item's MIME type
findRendererOfMime(s, preferredRendererId, mime) ==
    LET values == s.renderers
        Matches(h) == /\ \E i \in DOMAIN s.instances[h].data.mimeTypes :
                             s.instances[h].data.mimeTypes[i] = mime
                      /\ s.instances[h].data.extends = None
        byId == { p \in DOMAIN values : /\ s.instances[values[p]].data.id = preferredRendererId
                                        /\ Matches(values[p]) }
        rendererList == SelectSeq(values, Matches)
    IN IF preferredRendererId # None
       THEN IF byId = {} THEN NoRef ELSE values[Min(byId)]
       ELSE IF Len(rendererList) > 0 THEN rendererList[1] ELSE NoRef

\* renderers.findRenderer(preferredRendererId, info)
findRenderer(s, preferredRendererId, mime) ==
    LET values == s.renderers
        byId == { p \in DOMAIN values : s.instances[values[p]].data.id = preferredRendererId }
        Matches(h) == /\ \E i \in DOMAIN s.instances[h].data.mimeTypes :
                             s.instances[h].data.mimeTypes[i] = mime
                      /\ s.instances[h].data.extends = None
        rendererList == SelectSeq(values, Matches)
    IN IF preferredRendererId # None
       THEN IF byId = {} THEN NoRef ELSE values[Min(byId)]
       ELSE IF Len(rendererList) > 0 THEN rendererList[1] ELSE NoRef

\* a showRenderError that reports the height of the error block as a completed render
showRenderErrorCompletes(s, o, info, errorMessage) ==
    LET t == [s EXCEPT !.outputObjs[o].mount = Mount(errorMessage, info)]
    IN [t EXCEPT !.fx = @ \o <<Fx("onRenderCompleted", NoRef, NoRef, None),
                               Fx("post", NoRef, NoRef, "didRenderOutput")>>]

\* renderers.showRenderError(info, element, errorMessage): the mount holds the error block
\* (the message and the text of item `info`) and nothing else
showRenderError(s, o, info, errorMessage) ==
    [s EXCEPT !.outputObjs[o].mount = Mount(errorMessage, info)]

\* document.images: the <img> elements in the elements of the Outputs in the document
DocumentImages(s) ==
    { s.outputObjs[o].mount.img : o \in { h \in 1..MaxOutputs : /\ s.outputObjs[h].live
                                                               /\ s.outputObjs[h].attached } }
        \ {0}

\* a 'didRenderOutput' message that reports a completion: it follows every render that has
\* succeeded by now
reportHeight(s) ==
    [s EXCEPT !.fx = Append(@, Fx("post", NoRef, NoRef, "didRenderOutput")),
              !.observers = @ + 1,
              !.renders = [r \in DOMAIN @ |-> [@[r] EXCEPT !.followed = @ \/ s.renders[r].completed]]]

\* renderers.onRenderCompleted(): with no <img> in the document the height is posted and
\* document.body observed at once; otherwise a report is put off until the images that are
\* not complete have fired load or error (img.onload = img.onerror = resolve)
onRenderCompleted(s) ==
    LET called == [s EXCEPT !.fx = Append(@, Fx("onRenderCompleted", NoRef, NoRef, None))]
        waiting == { i \in DocumentImages(s) : ~s.images[i].complete }
        k == Len(s.reports) + 1
    IN IF DocumentImages(s) = {} THEN reportHeight(called)
       ELSE [called EXCEPT
               !.reports = Append(@, [images |-> waiting, resolved |-> {}, posted |-> FALSE]),
               !.images = [i \in DOMAIN @ |->
                              IF i \in waiting THEN [@[i] EXCEPT !.handler = k] ELSE @[i]]]

\* the .then callback of a report whose images have all resolved
reportReady(s, k) == reportHeight([s EXCEPT !.reports[k].posted = TRUE])

\* an <img> fires load or error: its onload/onerror handler, if set, resolves
imageSettles(s, i) ==
    LET k == s.images[i].handler
        t == [s EXCEPT !.images[i].complete = TRUE]
    IN IF k = 0 THEN t ELSE [t EXCEPT !.reports[k].resolved = @ \cup {i}]

\* every ResizeObserver on document.body posts the height
bodyResized(s) ==
    [s EXCEPT !.fx = @ \o [j \in 1..s.observers |-> Fx("post", NoRef, NoRef, "didRenderOutput")]]

\* the item a render invocation is attempting: the selected one, or the loop's
Attempted(r) == IF r.cur = 0 THEN r.item ELSE r.cur

\* an invocation ends
finish(s, r, res) == [s EXCEPT !.renders[r].pc = "done", !.renders[r].res = res]

\* a getOrLoad that starts the import without awaiting the preloads
beginAttemptNoWait(s, r, k, h) ==
    IF s.instances[h].api
    THEN [s EXCEPT !.renders[r].cur = k, !.renders[r].rend = h, !.renders[r].pc = "loaded"]
    ELSE [s EXCEPT !.renders[r].cur = k, !.renders[r].rend = h, !.renders[r].pc = "import",
                   !.renders[r].deps = Tracked(s)]

\* doRender -> Renderer.getOrLoad() up to its first await, for renderer h and item k
\* (k = 0: the primary attempt)
beginAttempt(s, r, k, h) ==
    IF s.instances[h].api
    THEN [s EXCEPT !.renders[r].cur = k, !.renders[r].rend = h, !.renders[r].pc = "loaded"]
    ELSE [s EXCEPT !.renders[r].cur = k, !.renders[r].rend = h, !.renders[r].pc = "preloads",
                   !.renders[r].deps = Tracked(s)]

\* a catch clause that rethrows the fallback error like any other
doRenderCatchRethrowsAll(s, r, sentinel) ==
    IF s.renders[r].aborted
    THEN [s EXCEPT !.renders[r].pc = "attempted", !.renders[r].cont = FALSE]
    ELSE finish(s, r, "rejected")

\* a catch clause that takes every error for the fallback error
doRenderCatchSwallowsAll(s, r, sentinel) ==
    [s EXCEPT !.renders[r].pc = "attempted", !.renders[r].cont = ~s.renders[r].aborted]

\* the catch clause of doRender; sentinel: the error is named renderFallbackErrorName
doRenderCatch(s, r, sentinel) ==
    IF s.renders[r].aborted
    THEN [s EXCEPT !.renders[r].pc = "attempted", !.renders[r].cont = FALSE]
    ELSE IF sentinel
    THEN [s EXCEPT !.renders[r].pc = "attempted", !.renders[r].cont = TRUE]
    ELSE finish(s, r, "rejected")

\* getOrLoad after `await kernelPreloads.waitForAllCurrent()`: the import starts
getOrLoadWaited(s, r) == [s EXCEPT !.renders[r].pc = "import"]

\* a context that always carries the message channel
createRendererContextWithChannel(data) == [messaging |-> TRUE]

\* Renderer.createRendererContext(): whether the context carries onDidReceiveMessage and
\* postMessage
createRendererContext(data) == [messaging |-> data.requiresMessaging]

\* Renderer.receiveMessage(message): onMessageEvent fires, once for every listener.  A
\* module listens through every context with a channel it was handed.
receiveMessage(s, h) ==
    [s EXCEPT !.fx = @ \o [j \in 1..s.instances[h].channels |->
                              Fx("onDidReceiveMessage", h, NoRef, s.instances[h].data.id)]]

\* a handler that fires the message on every registered Renderer
customRendererMessageToAll(s, rendererId) ==
    [s EXCEPT !.fx = @ \o [p \in DOMAIN s.renderers |->
                              Fx("onDidReceiveMessage", s.renderers[p], NoRef, rendererId)]]

\* case 'customRendererMessage': renderers.getRenderer(rendererId)?.receiveMessage(message)
customRendererMessage(s, rendererId) ==
    LET h == getRenderer(s, rendererId)
    IN IF h = NoRef THEN s ELSE receiveMessage(s, h)

\* the module of Renderer h calls context.postMessage, if its context has one
postMessage(s, h) ==
    IF s.instances[h].channels = 0 THEN s
    ELSE [s EXCEPT !.fx = @ \o <<Fx("context.postMessage", h, NoRef, None),
                                 Fx("post customRendererMessage", h, NoRef,
                                    s.instances[h].data.id)>>]

\* getOrLoad after `await __import(...)`: rendererModule.activate(context) is called
getOrLoadImported(s, r) ==
    LET h == s.renders[r].rend
        k == RendererModuleKind(s.instances[h].data.uri)
        called == [s EXCEPT !.instances[h].activations = @ + 1,
                            !.instances[h].channels =
                                IF createRendererContext(s.instances[h].data).messaging
                                THEN @ + 1 ELSE @,
                            !.fx = Append(@, Fx("activate", h, NoRef, None))]
    IN CASE k = "importFails" -> doRenderCatch(s, r, FALSE)
         [] k = "activateThrows" -> doRenderCatch(called, r, FALSE)
         [] OTHER -> [called EXCEPT !.renders[r].pc = "activate"]

\* getOrLoad after `await rendererModule.activate(...)`: this.rendererApi is set
getOrLoadActivated(s, r) ==
    [s EXCEPT !.instances[s.renders[r].rend].api = TRUE, !.renders[r].pc = "loaded"]

\* doRender after `await renderer.getOrLoad()`: renderOutputItem(item, element, signal)
doRenderLoaded(s, r) ==
    LET rec == s.renders[r]
        k == Attempted(rec)
        mime == s.outputObjs[rec.out].allItems[k]
        res == RenderOutcome(s.instances[rec.rend].data.uri, mime)
        called == [s EXCEPT !.fx = Append(@, Fx("renderOutputItem", rec.rend, rec.out, k))]
    IN CASE res = "ok" /\ RendererModuleKind(s.instances[rec.rend].data.uri) = "image" ->
              [called EXCEPT !.images = Append(@, [complete |-> FALSE, handler |-> 0]),
                             !.outputObjs[rec.out].mount =
                                 MountWithImage(k, Len(s.images) + 1),
                             !.renders[r].pc = "attempted", !.renders[r].cont = FALSE]
         [] res = "ok" ->
              [called EXCEPT !.outputObjs[rec.out].mount = Mount("content", k),
                             !.renders[r].pc = "attempted", !.renders[r].cont = FALSE]
         [] res = "fallback" ->
              doRenderCatch([called EXCEPT !.outputObjs[rec.out].mount = Mount("partial", k)],
                            r, TRUE)
         [] OTHER ->
              doRenderCatch([called EXCEPT !.outputObjs[rec.out].mount = Mount("partial", k)],
                            r, FALSE)

RECURSIVE fallbackLoopByIdentity(_, _, _)
\* a loop that skips the item tried first and no other
fallbackLoopByIdentity(s, r, k) ==
    LET rec == s.renders[r]
        o == s.outputObjs[rec.out]
    IN IF k > Len(o.allItems)
       THEN finish(showRenderError(s, rec.out, rec.item, "noFallback"), r, "noFallback")
       ELSE IF k = rec.item THEN fallbackLoopByIdentity(s, r, k + 1)
       ELSE IF rec.aborted THEN finish(s, r, "cancelled")
       ELSE LET renderer == findRenderer(s, None, o.allItems[k])
            IN IF renderer = NoRef THEN fallbackLoopByIdentity(s, r, k + 1)
               ELSE beginAttempt(s, r, k, renderer)

RECURSIVE fallbackLoop(_, _, _)
\* the for loop of render over output.allItems, from index k on, up to the next await
fallbackLoop(s, r, k) ==
    LET rec == s.renders[r]
        o == s.outputObjs[rec.out]
    IN IF k > Len(o.allItems)
       THEN finish(showRenderError(s, rec.out, rec.item, "noFallback"), r, "noFallback")
       ELSE IF o.allItems[k] = o.allItems[rec.item] THEN fallbackLoop(s, r, k + 1)
       ELSE IF rec.aborted THEN finish(s, r, "cancelled")
       ELSE LET renderer == findRenderer(s, None, o.allItems[k])
            IN IF renderer = NoRef THEN fallbackLoop(s, r, k + 1)
               ELSE beginAttempt(s, r, k, renderer)

\* render after `await this.doRender(...)`
renderAttempted(s, r) ==
    LET rec == s.renders[r]
    IN IF ~rec.cont
       THEN finish(onRenderCompleted([s EXCEPT !.outputObjs[rec.out].renderer = rec.rend,
                                               !.renders[r].completed = TRUE]),
                   r, "success")
       ELSE fallbackLoop(s, r, rec.cur + 1)

\* a render that takes the first registered renderer when none matches
renderAnyRenderer(s, o, preferredMimeType, preferredRendererId) ==
    LET item == findItemToRender(s.outputObjs[o], preferredMimeType)
        rec == [out |-> o, prefMime |-> preferredMimeType, prefId |-> preferredRendererId,
                aborted |-> FALSE, pc |-> "start", item |-> item, cur |-> 0, rend |-> NoRef,
                deps |-> {}, cont |-> FALSE, res |-> None, completed |-> FALSE,
                followed |-> FALSE,
                abortAt |-> <<None, 0>>]
        t == [s EXCEPT !.renders = Append(@, rec)]
    IN IF s.renderers = <<>>
       THEN finish(showRenderError(t, o, item, "noRenderer"), Len(t.renders), "noRenderer")
       ELSE beginAttempt(t, Len(t.renders), 0, s.renderers[1])

\* renderers.render(output, preferredMimeType, preferredRendererId, signal) up to its first
\* await; the signal of the new invocation is not aborted
render(s, o, preferredMimeType, preferredRendererId) ==
    LET item == findItemToRender(s.outputObjs[o], preferredMimeType)
        primaryRenderer == findRenderer(s, preferredRendererId, s.outputObjs[o].allItems[item])
        r == Len(s.renders) + 1
        rec == [out |-> o, prefMime |-> preferredMimeType, prefId |-> preferredRendererId,
                aborted |-> FALSE, pc |-> "start", item |-> item, cur |-> 0, rend |-> NoRef,
                deps |-> {}, cont |-> FALSE, res |-> None, completed |-> FALSE,
                followed |-> FALSE,
                abortAt |-> <<None, 0>>]
        t == [s EXCEPT !.renders = Append(@, rec)]
    IN IF primaryRenderer = NoRef
       THEN finish(showRenderError(t, o, item, "noRenderer"), r, "noRenderer")
       ELSE beginAttempt(t, r, 0, primaryRenderer)

(* ------------------------------ output list ---------------------------- *)

\* Array.prototype.splice's clamping of (start, deleteCount) on an array of length n:
\* the first index removed (0-based) and the number of elements removed
SpliceStart(n, start) == IF start < 0 THEN (IF n + start < 0 THEN 0 ELSE n + start)
                         ELSE IF start > n THEN n ELSE start

SpliceCount(n, start, count) ==
    LET a == SpliceStart(n, start)
        c == IF count < 0 THEN 0 ELSE count
    IN IF c > n - a THEN n - a ELSE c

\* Renderer.disposeOutputItem(id): the loaded module's disposeOutputItem hook, if any
disposeOutputItem(s, h, id) ==
    IF s.instances[h].api THEN [s EXCEPT !.fx = Append(@, Fx("disposeOutputItem", h, NoRef, id))]
    ELSE s

\* clearOutput(output): output.clear(), then output.container.remove()
clearOutput(s, o) ==
    LET out == s.outputObjs[o]
        t == IF out.renderer # NoRef
             THEN disposeOutputItem(s, out.renderer,
                                    IF out.renderedItem = 0 THEN None ELSE out.renderedItem)
             ELSE s
    IN [t EXCEPT !.outputObjs[o].mount = EmptyMount, !.outputObjs[o].attached = FALSE]

RECURSIVE clearEach(_, _)
clearEach(s, os) == IF os = <<>> THEN s ELSE clearEach(clearOutput(s, Head(os)), Tail(os))

\* new Output(outputData, apiItems); outputs.push(output); renderers.render(output, ...)
addOutput(s, outputData, preferredMimeType, preferredRendererId) ==
    LET o == Min((1..MaxOutputs) \ OutInUse(s))
        t == [s EXCEPT !.outputObjs[o] = NewOutput(outputData.id, outputData.items),
                       !.outputs = Append(@, o)]
    IN render(t, o, preferredMimeType, preferredRendererId)

RECURSIVE addEach(_, _)
\* the second loop of outputsChanged
addEach(s, newOutputs) ==
    IF newOutputs = <<>> THEN s
    ELSE addEach(addOutput(s, Head(newOutputs), None, None), Tail(newOutputs))

\* outputsChanged(changedEvent)
outputsChanged(s, deleteStart, deleteCount, newOutputs) ==
    LET n == Len(s.outputs)
        a == SpliceStart(n, deleteStart)
        c == SpliceCount(n, deleteStart, deleteCount)
        removed == SubSeq(s.outputs, a + 1, a + c)
        kept == SubSeq(s.outputs, 1, a) \o SubSeq(s.outputs, a + c + 1, n)
    IN addEach(clearEach([s EXCEPT !.outputs = kept], removed), newOutputs)

\* a handler that re-renders the first Output of the list only
rerenderFirst(s, os, mimeType) ==
    IF os = <<>> THEN s
    ELSE render([s EXCEPT !.outputObjs[Head(os)].mount = EmptyMount], Head(os), mimeType, None)

RECURSIVE rerenderEach(_, _, _)
\* case 'changePreferredMimetype': outputs.forEach(clear the element, render)
rerenderEach(s, os, mimeType) ==
    IF os = <<>> THEN s
    ELSE rerenderEach(render([s EXCEPT !.outputObjs[Head(os)].mount = EmptyMount],
                             Head(os), mimeType, None),
                      Tail(os), mimeType)

(* ------------------------- objects still reachable --------------------- *)

RECURSIVE Dedupe(_, _)
\* seq without NoRef and without repetitions, first occurrences kept; acc: those seen
Dedupe(seq, acc) ==
    IF seq = <<>> THEN <<>>
    ELSE IF Head(seq) = NoRef \/ Head(seq) \in acc THEN Dedupe(Tail(seq), acc)
    ELSE <<Head(seq)>> \o Dedupe(Tail(seq), acc \cup {Head(seq)})

IndexOf(seq, x) == IF x = NoRef THEN NoRef ELSE Min({ i \in DOMAIN seq : seq[i] = x })

\* the Outputs some reference reaches, in the order the references are met
ReachableOutputs(s) ==
    Dedupe(s.outputs \o [r \in DOMAIN s.renders |-> s.renders[r].out]
                     \o [i \in DOMAIN s.fx |-> s.fx[i].out], {})

\* the Renderers some reference reaches, likewise
ReachableRenderers(s) ==
    LET os == ReachableOutputs(s)
    IN Dedupe(s.renderers \o [k \in DOMAIN os |-> s.outputObjs[os[k]].renderer]
                          \o [r \in DOMAIN s.renders |-> s.renders[r].rend]
                          \o [i \in DOMAIN s.fx |-> s.fx[i].inst], {})

\* The step's result becomes the next state.  Objects no reference reaches are dropped,
\* and the handles of the others are renumbered in the order above: a handle stands for
\* the identity of an object, which the program can only compare, so states that differ
\* in the numbering alone are one state.
Canon(s) ==
    LET os == ReachableOutputs(s)
        rs == ReachableRenderers(s)
    IN [s EXCEPT
          !.renderers = [p \in DOMAIN s.renderers |-> IndexOf(rs, s.renderers[p])],
          !.instances = [h \in 1..MaxInst |-> IF h <= Len(rs) THEN s.instances[rs[h]] ELSE NoInst],
          !.outputs = [p \in DOMAIN s.outputs |-> IndexOf(os, s.outputs[p])],
          !.outputObjs = [o \in 1..MaxOutputs |->
                            IF o <= Len(os)
                            THEN [s.outputObjs[os[o]] EXCEPT !.renderer = IndexOf(rs, @)]
                            ELSE NoOut],
          !.renders = [r \in DOMAIN s.renders |->
                            [s.renders[r] EXCEPT !.out = IndexOf(os, @), !.rend = IndexOf(rs, @)]],
          !.fx = [i \in DOMAIN s.fx |->
                            [s.fx[i] EXCEPT !.out = IndexOf(os, @), !.inst = IndexOf(rs, @)]]]

Commit(s) ==
    \E c \in {Canon(s)} :
       /\ phase' = c.phase
       /\ listeners' = c.listeners
       /\ rootStyle' = c.rootStyle
       /\ renderers' = c.renderers
       /\ instances' = c.instances
       /\ preloads' = c.preloads
       /\ loads' = c.loads
       /\ outputs' = c.outputs
       /\ outputObjs' = c.outputObjs
       /\ renders' = c.renders
       /\ images' = c.images
       /\ reports' = c.reports
       /\ cell' = c.cell
       /\ observers' = c.observers
       /\ msg' = c.msg
       /\ statics' = statics
       /\ fx' = c.fx
       /\ call' = call

(* -------------------------------- set-up ------------------------------- *)

RECURSIVE addAll(_, _)
\* the registry's constructor: addRenderer for each of ctx.rendererData
addAll(s, L) == IF L = <<>> THEN s ELSE addAll(addRenderer(s, Head(L)), Tail(L))

Blank == [phase |-> "preloading", listeners |-> {}, rootStyle |-> <<>>, renderers |-> <<>>,
          instances |-> [h \in 1..MaxInst |-> NoInst],
          preloads |-> [u \in PreloadUris |-> NoRef], loads |-> <<>>,
          outputs |-> <<>>, outputObjs |-> [o \in 1..MaxOutputs |-> NoOut],
          renders |-> <<>>, images |-> <<>>, reports |-> <<>>, cell |-> <<>>,
          observers |-> 0,
          msg |-> NoMsg, fx |-> <<>>]

\* outputWebviewPreload(ctx) up to `await Promise.all(ctx.staticPreloadsData.map(load))`
Started(c) ==
    Canon([loadAll(addAll(Blank, c.rendererData), c.staticPreloadsData) EXCEPT !.fx = <<>>])

InitWith(c) ==
    LET s == Started(c)
    IN /\ statics = 1..Len(c.staticPreloadsData)
       /\ phase = s.phase
       /\ listeners = s.listeners
       /\ rootStyle = s.rootStyle
       /\ renderers = s.renderers
       /\ instances = s.instances
       /\ preloads = s.preloads
       /\ loads = s.loads
       /\ outputs = s.outputs
       /\ outputObjs = s.outputObjs
       /\ renders = s.renders
       /\ images = s.images
       /\ reports = s.reports
       /\ cell = s.cell
       /\ observers = s.observers
       /\ msg = s.msg
       /\ fx = s.fx
       /\ call = NoCall

\* Promise.all over the promises the static load calls returned (the first load calls)
StaticState == PromiseAll({ LoadState(loads, i) : i \in statics })

\* window.addEventListener calls of outputWebviewPreload
AllListeners == {"message", "wheel", "focusin", "focusout"}

\* the rest of the script run without awaiting the static preloads
SetupDoneNoAwait ==
    /\ phase = "preloading"
    /\ Commit([Cur EXCEPT !.phase = "running", !.listeners = AllListeners,
                          !.fx = <<Fx("post", NoRef, NoRef, "initialized")>>])

\* the rest of outputWebviewPreload: the listeners are installed, 'initialized' is posted
SetupDone ==
    /\ phase = "preloading"
    /\ StaticState = "fulfilled"
    /\ Commit([Cur EXCEPT !.phase = "running", !.listeners = AllListeners,
                          !.fx = <<Fx("post", NoRef, NoRef, "initialized")>>])

\* the awaited Promise.all rejects: outputWebviewPreload ends there
SetupFailed ==
    /\ phase = "preloading"
    /\ StaticState = "rejected"
    /\ Commit([Cur EXCEPT !.phase = "failed"])

(* --------------------------- message handlers -------------------------- *)

\* an 'updateRenderers' case that renders the Outputs again with the new registry
MsgUpdateRenderersRerenders(L) ==
    /\ "message" \in listeners
    /\ CanAlloc(Cur, Len(L))
    /\ Commit(rerenderEach(
                 updateRendererData(
                     [Cur EXCEPT !.msg = [type |-> "updateRenderers", rendererData |-> L]], L),
                 outputs, None))

\* case 'updateRenderers'
MsgUpdateRenderers(L) ==
    /\ "message" \in listeners
    /\ CanAlloc(Cur, Len(L))
    /\ Commit(updateRendererData(
                 [Cur EXCEPT !.msg = [type |-> "updateRenderers", rendererData |-> L]], L))

\* case 'outputChanged'
MsgOutputChanged(deleteStart, deleteCount, newOutputs) ==
    /\ "message" \in listeners
    /\ Len(renders) + Len(newOutputs) <= MaxRenders
    /\ Cardinality(OutInUse(Cur)) + Len(newOutputs) <= MaxOutputs
    /\ Commit(outputsChanged(
                 [Cur EXCEPT !.msg = [type |-> "outputChanged", deleteStart |-> deleteStart,
                                      deleteCount |-> deleteCount, newOutputs |-> newOutputs]],
                 deleteStart, deleteCount, newOutputs))

\* the output the host sends for an outputId
CellOutput(id) == [id |-> id, items |-> <<"x">>]

\* cell.outputs after the splice that onDidChangeOutputs reports
cellSplice(c, start, deleteCount, ids) ==
    SubSeq(c, 1, start) \o ids \o SubSeq(c, start + deleteCount + 1, Len(c))

\* cell.outputs.findIndex(o => o.outputId === id)
findIndex(c, id) ==
    IF \E p \in DOMAIN c : c[p] = id THEN Min({ p \in DOMAIN c : c[p] = id }) - 1 ELSE -1

\* CellOutputWebviewImpl.updateOutput(update): the message is sent and handled
updateOutput(s, start, deleteCount, ids) ==
    LET newOutputs == [i \in DOMAIN ids |-> CellOutput(ids[i])]
    IN outputsChanged([s EXCEPT !.msg = [type |-> "outputChanged", deleteStart |-> start,
                                         deleteCount |-> deleteCount,
                                         newOutputs |-> newOutputs]],
                      start, deleteCount, newOutputs)

\* cell.onDidChangeOutputs: outputs of the cell are replaced by outputs with new ids
CellOutputsChanged(start, deleteCount, ids) ==
    /\ "message" \in listeners
    /\ start + deleteCount <= Len(cell)
    /\ \A i \in DOMAIN ids : ids[i] \notin Range(cellSplice(cell, start, deleteCount, <<>>))
    /\ Len(renders) + Len(ids) <= MaxCellRenders
    /\ Cardinality(OutInUse(Cur)) + Len(ids) <= MaxOutputs
    /\ Commit(updateOutput([Cur EXCEPT !.cell = cellSplice(@, start, deleteCount, ids)],
                           start, deleteCount, ids))

\* cell.onDidChangeOutputItems: the items of an output of the cell have changed
CellOutputItemsChanged(id) ==
    /\ "message" \in listeners
    /\ id \in Range(cell)
    /\ Len(renders) + 1 <= MaxCellRenders
    /\ Cardinality(OutInUse(Cur)) + 1 <= MaxOutputs
    /\ Commit(updateOutput(Cur, findIndex(cell, id), 1, <<id>>))

\* case 'changePreferredMimetype', where at most cap render invocations are followed
ChangePreferredMimetype(mimeType, cap) ==
    /\ "message" \in listeners
    /\ outputs # <<>>
    /\ Len(renders) + Len(outputs) <= cap
    /\ Commit(rerenderEach(
                 [Cur EXCEPT !.msg = [type |-> "changePreferredMimetype", mimeType |-> mimeType]],
                 outputs, mimeType))

MsgChangePreferredMimetype(mimeType) == ChangePreferredMimetype(mimeType, MaxRenders)

\* case 'customRendererMessage'
MsgCustomRendererMessage(rendererId) ==
    /\ "message" \in listeners
    /\ Commit(customRendererMessage(
                 [Cur EXCEPT !.msg = [type |-> "customRendererMessage",
                                      rendererId |-> rendererId]], rendererId))

\* the module of an activated Renderer sends a message to its extension
RendererPosts(h) ==
    /\ instances[h].live
    /\ instances[h].activations > 0
    /\ Commit(postMessage(Cur, h))

\* case 'preload'
MsgPreload(resources) ==
    /\ "message" \in listeners
    /\ Len(loads) + Len(resources) <= MaxLoads
    /\ Commit(loadAll([Cur EXCEPT !.msg = [type |-> "preload", resources |-> resources]],
                       resources))

\* case 'notebookStyles'
MsgNotebookStyles(styles) ==
    /\ "message" \in listeners
    /\ Commit([Cur EXCEPT !.msg = [type |-> "notebookStyles", styles |-> styles],
                          !.rootStyle = setEach(removeNotebookProperties(rootStyle, Len(rootStyle)),
                                                styles)])

\* another script of the page (a renderer, a preload) sets a property on the root element
SetRootProperty(property, value) ==
    /\ Commit([Cur EXCEPT !.rootStyle = setProperty(rootStyle, property, value)])

\* the 'wheel' listener: handleWheel(event)
Wheel(event) ==
    /\ "wheel" \in listeners
    /\ Commit(handleWheel([Cur EXCEPT !.msg = [type |-> "wheel", event |-> event]], event))

\* an Element a focus event can have as its target or relatedTarget
Element(tag, type) == [tag |-> tag, type |-> type]

\* event.target instanceof HTMLInputElement
IsHTMLInputElement(target) == target.tag = "input"

\* focusChange(event, focus)
focusChange(s, event, focus) ==
    IF IsHTMLInputElement(event.target)
    THEN [s EXCEPT !.fx = Append(@, Fx("post inputFocusChanged", NoRef, NoRef, focus))]
    ELSE s

\* the 'focusin' listener
FocusIn(event) ==
    /\ "focusin" \in listeners
    /\ Commit(focusChange([Cur EXCEPT !.msg = [type |-> "focusin", event |-> event]],
                          event, TRUE))

\* the 'focusout' listener
FocusOut(event) ==
    /\ "focusout" \in listeners
    /\ Commit(focusChange([Cur EXCEPT !.msg = [type |-> "focusout", event |-> event]],
                          event, FALSE))

(* ----------------------- continuations after awaits -------------------- *)

PreloadImported(i) ==
    /\ loads[i].run = "import"
    /\ Commit(preloadImported(Cur, i))

PreloadActivated(i) ==
    /\ loads[i].run = "activate"
    /\ Commit(preloadActivated(Cur, i))

\* the promise `await kernelPreloads.waitForAllCurrent()` of invocation r waits on is
\* fulfilled
PreloadsAwaited(r) == waitForAllCurrent(loads, renders[r].deps) = "fulfilled"

GetOrLoadWaited(r) ==
    /\ renders[r].pc = "preloads"
    /\ PreloadsAwaited(r)
    /\ Commit(getOrLoadWaited(Cur, r))

GetOrLoadImported(r) ==
    /\ renders[r].pc = "import"
    /\ Commit(getOrLoadImported(Cur, r))

GetOrLoadActivated(r) ==
    /\ renders[r].pc = "activate"
    /\ Commit(getOrLoadActivated(Cur, r))

DoRenderLoaded(r) ==
    /\ renders[r].pc = "loaded"
    /\ Commit(doRenderLoaded(Cur, r))

\* a loop that goes on to the next item without awaiting the doRender it has called
RenderAttemptedNoAwait(r) ==
    /\ renders[r].pc \in {"preloads", "import", "activate", "loaded", "attempted"}
    /\ Commit(fallbackLoop(Cur, r, renders[r].cur + 1))

RenderAttempted(r) ==
    /\ renders[r].pc = "attempted"
    /\ Commit(renderAttempted(Cur, r))

\* the holder of the AbortController aborts the signal of a running invocation
Abort(r) ==
    /\ renders[r].pc # "done"
    /\ ~renders[r].aborted
    /\ Commit([Cur EXCEPT !.renders[r].aborted = TRUE,
                          !.renders[r].abortAt = IF renders[r].pc = "attempted" /\ renders[r].cont
                                                 THEN <<"failed", renders[r].cur>>
                                                 ELSE <<renders[r].pc, renders[r].cur>>])

PreloadStep == \E i \in DOMAIN loads : PreloadImported(i) \/ PreloadActivated(i)

\* an <img> element fires load or error
ImageSettles(i) ==
    /\ ~images[i].complete
    /\ Commit(imageSettles(Cur, i))

\* a .then callback that runs before the images have fired
ReportReadyEarly(k) ==
    /\ ~reports[k].posted
    /\ Commit(reportReady(Cur, k))

\* Promise.all over the images of a report is fulfilled: its .then callback runs
ReportReady(k) ==
    /\ ~reports[k].posted
    /\ reports[k].resolved = reports[k].images
    /\ Commit(reportReady(Cur, k))

\* document.body changes size
BodyResized ==
    /\ observers > 0
    /\ Commit(bodyResized(Cur))

ImageStep ==
    \/ \E i \in DOMAIN images : ImageSettles(i)
    \/ \E k \in DOMAIN reports : ReportReady(k)

RenderStep ==
    \E r \in DOMAIN renders :
        \/ GetOrLoadWaited(r)
        \/ GetOrLoadImported(r)
        \/ GetOrLoadActivated(r)
        \/ DoRenderLoaded(r)
        \/ RenderAttempted(r)

(* ======================= the registry under updates ==================== *)

\* outputs of one item of mime "x": enough to get renderers loaded
RegistryOutputs == { <<[id |-> "o1", items |-> <<"x">>]>> }

InitRegistry ==
    \E L \in RegistryLists : InitWith([rendererData |-> L, staticPreloadsData |-> <<>>])

NextRegistry ==
    \/ SetupDone
    \/ \E L \in RegistryLists : MsgUpdateRenderers(L)
    \/ \E no \in RegistryOutputs : outputs = <<>> /\ MsgOutputChanged(0, 0, no)
    \/ RenderStep

SpecRegistry == InitRegistry /\ [][NextRegistry]_vars

(* ===================== one render invocation at a time ================= *)

RenderMetas ==
    { Meta("r1", u, None, FALSE, <<"x">>) :
          u \in {"ok.js", "fallback.js", "fatal.js", "noimport.js", "badactivate.js"} }
    \cup { Meta("r1", "ok.js", "base", FALSE, <<"x">>) }
    \cup { Meta("r2", u, None, FALSE, <<"y">>) : u \in {"ok.js", "fallback.js", "fatal.js"} }
    \cup { Meta("r2", "picky.js", None, FALSE, <<"x", "y">>) }

RenderRegistries == SeqsUpTo(RenderMetas, 2)

ItemLists == SeqsUpTo(Mimes, MaxItems) \ {<<>>}

InitRender ==
    \E L \in RenderRegistries : InitWith([rendererData |-> L, staticPreloadsData |-> <<>>])

\* render(output, preferredMimeType, undefined, signal) on a newly announced Output.  The
\* bridge itself passes no preferred MIME type for a new Output (it does on a re-render);
\* like the bridge, the call passes no preferred renderer id.
CallRender(items, preferredMimeType) ==
    /\ phase = "running"
    /\ renders = <<>>
    /\ Commit(addOutput(Cur, [id |-> "o1", items |-> items], preferredMimeType, None))

NextRender ==
    \/ SetupDone
    \/ \E items \in ItemLists, pm \in {None, "y"} : CallRender(items, pm)
    \/ RenderStep
    \/ \E r \in DOMAIN renders : Abort(r)

SpecRender == InitRender /\ [][NextRender]_vars

(* ========================== the kernel preloads ======================== *)

PreloadLists == SeqsUpTo(PreloadUris, MaxLoads)

InitPreload ==
    \E S \in PreloadLists :
        InitWith([rendererData |-> <<BaseMeta("r1")>>, staticPreloadsData |-> S])

NextPreload ==
    \/ SetupDone
    \/ SetupFailed
    \/ \E resources \in PreloadLists \ {<<>>} : MsgPreload(resources)
    \/ PreloadStep
    \/ \E no \in RegistryOutputs : outputs = <<>> /\ MsgOutputChanged(0, 0, no)
    \/ RenderStep

SpecPreload == InitPreload /\ [][NextPreload]_vars

(* ====================== preloads requested in turn ===================== *)

\* load calls followed in a run of repeated 'preload' messages
MaxPreloadCalls == 3

InitLoads == InitWith([rendererData |-> <<>>, staticPreloadsData |-> <<>>])

\* case 'preload' with one resource, where at most cap load calls are followed
PreloadMessage(uri, cap) ==
    /\ "message" \in listeners
    /\ Len(loads) + 1 <= cap
    /\ Commit(loadAll([Cur EXCEPT !.msg = [type |-> "preload", resources |-> <<uri>>]],
                       <<uri>>))

NextLoads ==
    \/ SetupDone
    \/ \E uri \in PreloadUris : PreloadMessage(uri, MaxPreloadCalls)
    \/ PreloadStep

SpecLoads == InitLoads /\ [][NextLoads]_vars

(* ============================ the chat agents ========================== *)

OrchestratorChatAgentId == "Orchestrator"

fallBackChatAgentId == "Universal"

\* A value JSON.parse returns, or what stands where it throws: an array of ids, another
\* value (an object, a string, a number), or text that is no JSON
Json(kind, ids) == [kind |-> kind, ids |-> ids]

Thrown == Json("throw", <<>>)

RECURSIVE FirstParsed(_)
\* the while loop of getJsonOfResponse over the ```json blocks of the text: the first
\* block that JSON.parse accepts is returned
FirstParsed(blocks) ==
    IF blocks = <<>> THEN Thrown
    ELSE IF Head(blocks).kind # "invalid" THEN Head(blocks)
    ELSE FirstParsed(Tail(blocks))

\* getJsonOfResponse(response).  The text is given by its form: "fenced" when it starts
\* with ```json (blocks: what its fenced blocks hold), "bare" when it starts with { or [
\* (blocks: the one value the whole text is), "prose" otherwise.
getJsonOfResponse(response) ==
    IF response.form = "fenced" THEN FirstParsed(response.blocks)
    ELSE IF response.form = "bare"
    THEN IF response.blocks[1].kind = "invalid" THEN Thrown ELSE response.blocks[1]
    ELSE Thrown

\* an addContentsToResponse that takes the ids of the response as they are
addContentsToResponseUnfiltered(this, agents, response) ==
    LET jsonResponse == getJsonOfResponse(response)
        selected == IF jsonResponse.kind = "array" THEN jsonResponse.ids ELSE <<>>
        agentIds == IF Len(selected) < 1 THEN <<fallBackChatAgentId>> ELSE selected
        others == SelectSeq(agents, LAMBDA id : id # this)
    IN IF agentIds[1] \in Range(agents)
       THEN [invoked |-> <<agentIds[1]>>, thrown |-> FALSE]
       ELSE IF others # <<>> THEN [invoked |-> <<others[1]>>, thrown |-> FALSE]
       ELSE [invoked |-> <<>>, thrown |-> TRUE]

\* OrchestratorChatAgent.addContentsToResponse(response, request) of the agent of id
\* `this`, with the chat agent service holding `agents`: the invokeAgent calls made, and
\* whether it throws.  chatAgentService.getAgent(id) is the agent of that id among those
\* registered, getAgents() their list.
addContentsToResponse(this, agents, response) ==
    LET jsonResponse == getJsonOfResponse(response)
        selected == IF jsonResponse.kind = "array"
                    THEN SelectSeq(jsonResponse.ids, LAMBDA id : id # this)
                    ELSE <<>>
        agentIds == IF Len(selected) < 1 THEN <<fallBackChatAgentId>> ELSE selected
        others == SelectSeq(agents, LAMBDA id : id # this)
    IN IF agentIds[1] \in Range(agents)
       THEN [invoked |-> <<agentIds[1]>>, thrown |-> FALSE]
       ELSE IF others # <<>> THEN [invoked |-> <<others[1]>>, thrown |-> FALSE]
       ELSE [invoked |-> <<>>, thrown |-> TRUE]

\* a getCommands whose request is not inside a try block
getCommandsUncaught(input) ==
    IF ~input.lm THEN [returned |-> <<>>, thrown |-> FALSE, requested |-> FALSE]
    ELSE IF input.systemPrompt \in {"undefined", ""} \/ input.userPrompt \in {"undefined", ""}
    THEN [returned |-> <<>>, thrown |-> FALSE, requested |-> FALSE]
    ELSE IF input.result.kind = "throws"
    THEN [returned |-> <<>>, thrown |-> TRUE, requested |-> TRUE]
    ELSE IF input.result.kind # "parsed"
    THEN [returned |-> <<>>, thrown |-> FALSE, requested |-> TRUE]
    ELSE [returned |-> input.result.commands, thrown |-> FALSE, requested |-> TRUE]

\* AiTerminalAgent.getCommands(input), given what its services answer: lm, whether
\* selectLanguageModel returns a model; systemPrompt and userPrompt, the text of the prompt
\* getPrompt resolves ("undefined" when it resolves none); result, what lm.request does.
\* The outcome: the value returned, whether it throws, whether lm.request was called.
getCommands(input) ==
    IF ~input.lm THEN [returned |-> <<>>, thrown |-> FALSE, requested |-> FALSE]
    ELSE IF input.systemPrompt \in {"undefined", ""} \/ input.userPrompt \in {"undefined", ""}
    THEN [returned |-> <<>>, thrown |-> FALSE, requested |-> FALSE]
    ELSE IF input.result.kind = "throws"
    THEN [returned |-> <<>>, thrown |-> FALSE, requested |-> TRUE]
    ELSE IF input.result.kind # "parsed"
    THEN [returned |-> <<>>, thrown |-> FALSE, requested |-> TRUE]
    ELSE [returned |-> input.result.commands, thrown |-> FALSE, requested |-> TRUE]

\* ids a response names and agents that are registered
MaxIds == 2

MaxAgents == 2

AgentIds == {"Orchestrator", "Universal", "Coder"}

\* the values a block or a whole text can be
JsonValues ==
    { Json("array", ids) : ids \in SeqsUpTo(AgentIds \cup {"Ghost"}, MaxIds) }
       \cup { Json("object", <<>>), Json("invalid", <<>>) }

Responses ==
    { [form |-> "prose", blocks |-> <<>>] }
       \cup { [form |-> "bare", blocks |-> <<v>>] : v \in JsonValues }
       \cup { [form |-> "fenced", blocks |-> b] :
                 b \in {<<>>} \cup { <<v>> : v \in JsonValues }
                              \cup { <<Json("invalid", <<>>), v>> : v \in JsonValues } }

\* the agents of the chat agent service, in the order of getAgents(), each id once
AgentLists ==
    { agents \in SeqsUpTo(AgentIds, MaxAgents) :
          \A i, j \in DOMAIN agents : agents[i] = agents[j] => i = j }

CommandsInputs ==
    [lm : BOOLEAN, systemPrompt : {"undefined", "", "sys"}, userPrompt : {"undefined", "", "usr"},
     result : { [kind |-> k, commands |-> <<>>] : k \in {"throws", "text", "stream"} }
                 \cup { [kind |-> "parsed", commands |-> c] : c \in SeqsUpTo({"ls", "pwd"}, 2) }]

\* a chat request reaches the Orchestrator, whose language model answers with response
OrchestratorInvoke(agents, response) ==
    /\ call' = [agent |-> OrchestratorChatAgentId, agents |-> agents, response |-> response,
                outcome |-> addContentsToResponse(OrchestratorChatAgentId, agents, response)]
    /\ UNCHANGED <<phase, listeners, rootStyle, renderers, instances, preloads, loads, outputs,
                   outputObjs, renders, msg, statics, images, reports, cell, observers, fx>>

\* the terminal asks the AI Terminal Agent for commands
GetCommands(input) ==
    /\ call' = [agent |-> "Terminal", input |-> input, outcome |-> getCommands(input)]
    /\ UNCHANGED <<phase, listeners, rootStyle, renderers, instances, preloads, loads, outputs,
                   outputObjs, renders, msg, statics, images, reports, cell, observers, fx>>

InitAgents == InitWith([rendererData |-> <<>>, staticPreloadsData |-> <<>>])

NextAgents ==
    \/ \E agents \in AgentLists, response \in Responses : OrchestratorInvoke(agents, response)
    \/ \E input \in CommandsInputs : GetCommands(input)

SpecAgents == InitAgents /\ [][NextAgents]_vars

(* ============================ the style sync =========================== *)

\* names of style variables a message may carry, and values: "" is the empty string
StyleNames == { <<"notebook-", "a">>, <<"notebook-", "b">>, <<"foo">> }

StyleValues == { "", "1px", "2px" }

\* Object.entries(styles): entries with different names
StyleMaps ==
    { S \in SeqsUpTo([name : StyleNames, value : StyleValues], MaxStyles) :
          \A i, j \in DOMAIN S : S[i].name = S[j].name => i = j }

\* properties other scripts declare on the root element
RootProperties == { <<"color">>, <<"--", "foo">>, <<"--", "notebook-", "a">>, <<"--", "notebook-", "b">> }

InitStyles == InitWith([rendererData |-> <<>>, staticPreloadsData |-> <<>>])

NextStyles ==
    \/ SetupDone
    \/ \E S \in StyleMaps : MsgNotebookStyles(S)
    \/ \E property \in RootProperties, value \in {"", "0px"} : SetRootProperty(property, value)

SpecStyles == InitStyles /\ [][NextStyles]_vars

(* ============================= wheel events ============================ *)

\* Elements of client height 10: one with nothing to scroll, one scrolled by 3 with 5 left
\* below, one with a single pixel left below, one at its end, one with clipped content that
\* was scrolled by script, one that scrolls sideways only
Nodes ==
    { Node(0, 10, 10, "visible", FALSE),
      Node(3, 10, 18, "auto", FALSE),
      Node(0, 10, 11, "auto", FALSE),
      Node(3, 10, 13, "scroll", FALSE),
      Node(3, 10, 18, "hidden", FALSE),
      Node(0, 10, 10, "visible", TRUE) }

WheelDeltas == { <<0, -1>>, <<0, 1>>, <<1, 0>>, <<-1, 0>>, <<0, 0>> }

WheelEvents ==
    { [deltaX |-> d[1], deltaY |-> d[2], defaultPrevented |-> prevented, path |-> path] :
          d \in WheelDeltas, prevented \in BOOLEAN, path \in SeqsUpTo(Nodes, MaxDepth) }

InitWheel == InitWith([rendererData |-> <<>>, staticPreloadsData |-> <<>>])

NextWheel ==
    \/ SetupDone
    \/ \E event \in WheelEvents : Wheel(event)

SpecWheel == InitWheel /\ [][NextWheel]_vars

(* ============================= focus events ============================ *)

\* <input> elements of several types and elements of other kinds
FocusTargets ==
    { Element("input", type) :
          type \in {"text", "password", "search", "checkbox", "radio", "button", "range"} }
      \cup { Element(tag, "") : tag \in {"textarea", "select", "button", "div", "a"} }

\* FocusEvent: its target and the element focus comes from or goes to, if any
FocusEvents == [target : FocusTargets, relatedTarget : FocusTargets \cup {Element("none", "")}]

InitFocus == InitWith([rendererData |-> <<>>, staticPreloadsData |-> <<>>])

NextFocus ==
    \/ SetupDone
    \/ \E event \in FocusEvents : FocusIn(event)
    \/ \E event \in FocusEvents : FocusOut(event)

SpecFocus == InitFocus /\ [][NextFocus]_vars

(* ======================== completions and images ======================= *)

\* renderers of content with an <img> (for "x") and without (for "y"), or none for "y"
ImageRegistries ==
    { <<Meta("r1", "img.js", None, FALSE, <<"x">>)>>,
      <<Meta("r1", "img.js", None, FALSE, <<"x">>), Meta("r2", "ok.js", None, FALSE, <<"y">>)>>,
      <<Meta("r1", "fallback.js", None, FALSE, <<"x">>), Meta("r2", "img.js", None, FALSE, <<"y">>)>> }

ImageOutputs ==
    { <<[id |-> "o1", items |-> <<"x">>]>>,
      <<[id |-> "o1", items |-> <<"y">>]>>,
      <<[id |-> "o1", items |-> <<"x", "y">>], [id |-> "o2", items |-> <<"x">>]>> }

InitImages ==
    \E L \in ImageRegistries : InitWith([rendererData |-> L, staticPreloadsData |-> <<>>])

NextImages ==
    \/ SetupDone
    \/ \E deleteCount \in {0, 1}, no \in ImageOutputs \cup {<<>>} :
           MsgOutputChanged(0, deleteCount, no)
    \/ \E mimeType \in {"y"} : MsgChangePreferredMimetype(mimeType)
    \/ RenderStep
    \/ ImageStep
    \/ BodyResized

SpecImages == InitImages /\ [][NextImages]_vars

(* ================= the message listener, every state-changing case ===== *)

MessageRegistries == { <<>>, <<BaseMeta("r2")>> }

MessageOutputs == { <<[id |-> "o1", items |-> <<"x">>]>> }

MessageStyles == { <<[name |-> <<"notebook-", "a">>, value |-> "1px"]>> }

MessagePreloads == { <<"p_ok.js", "p_noimport.js">> }

InitMessages ==
    InitWith([rendererData |-> <<BaseMeta("r1")>>, staticPreloadsData |-> <<>>])

NextMessages ==
    \/ SetupDone
    \/ \E L \in MessageRegistries : MsgUpdateRenderers(L)
    \/ \E deleteCount \in {0, 1}, no \in MessageOutputs : MsgOutputChanged(0, deleteCount, no)
    \/ \E mimeType \in {"x"} : MsgChangePreferredMimetype(mimeType)
    \/ \E resources \in MessagePreloads : MsgPreload(resources)
    \/ \E S \in MessageStyles : MsgNotebookStyles(S)
    \/ PreloadStep
    \/ RenderStep

SpecMessages == InitMessages /\ [][NextMessages]_vars

(* ==================== the output list under the host's updates ========= *)

CellOutputIds == {"o1", "o2"}

InitOutputs ==
    \E L \in { <<>>, <<BaseMeta("r1")>> } :
        InitWith([rendererData |-> L, staticPreloadsData |-> <<>>])

NextOutputs ==
    \/ SetupDone
    \/ \E start \in 0..1, deleteCount \in 0..1, ids \in SeqsUpTo(CellOutputIds, 1) :
           CellOutputsChanged(start, deleteCount, ids)
    \/ \E id \in CellOutputIds : CellOutputItemsChanged(id)
    \/ RenderStep

SpecOutputs == InitOutputs /\ [][NextOutputs]_vars

(* ================== a change of the preferred MIME type ================ *)

RerenderRegistries ==
    { <<>>, <<Meta("r1", "ok.js", None, FALSE, <<"y">>)>>,
      <<Meta("r1", "ok.js", None, FALSE, <<"x">>), Meta("r2", "ok2.js", None, FALSE, <<"y">>)>> }

RerenderOutputs ==
    { <<[id |-> "o1", items |-> <<"x", "y">>], [id |-> "o2", items |-> <<"x">>]>> }

InitRerender ==
    \E L \in RerenderRegistries : InitWith([rendererData |-> L, staticPreloadsData |-> <<>>])

NextRerender ==
    \/ SetupDone
    \/ \E no \in RerenderOutputs : MsgOutputChanged(0, 0, no)
    \/ \E mimeType \in {"x", "y"} : ChangePreferredMimetype(mimeType, MaxRerenders)
    \/ RenderStep

SpecRerender == InitRerender /\ [][NextRerender]_vars

(* ====================== the choice of the renderer ===================== *)

FindMetas ==
    { Meta("r1", "ok.js", None, FALSE, <<"x">>),
      Meta("r1", "ok.js", "r2", FALSE, <<"x", "y">>),
      Meta("r2", "ok.js", None, FALSE, <<"y", "x">>),
      Meta("r3", "fallback.js", None, FALSE, <<"y">>) }

FindRegistries == SeqsUpTo(FindMetas, 2)

InitFind ==
    \E L \in FindRegistries : InitWith([rendererData |-> L, staticPreloadsData |-> <<>>])

\* render(output, undefined, preferredRendererId, signal) on a new Output
CallRenderWith(items, preferredRendererId) ==
    /\ phase = "running"
    /\ renders = <<>>
    /\ Commit(addOutput(Cur, [id |-> "o1", items |-> items], None, preferredRendererId))

NextFind ==
    \/ SetupDone
    \/ \E items \in {<<"x">>, <<"y">>, <<"z", "x">>}, id \in {None, "r1", "r2", "r3"} :
           CallRenderWith(items, id)
    \/ RenderStep

SpecFind == InitFind /\ [][NextFind]_vars

(* ================= an Output rendered a second time ==================== *)

\* "picky.js" refuses items of mime "x": the render of [x, y] falls back to the second item
SecondRegistries ==
    { <<Meta("r1", "picky.js", None, FALSE, <<"x", "y">>)>>,
      <<Meta("r1", "ok.js", None, FALSE, <<"x">>)>>,
      <<Meta("r1", "ok.js", None, FALSE, <<"x">>),
        Meta("r2", "fallback.js", None, FALSE, <<"y">>)>> }

\* an update after which no renderer renders an item
SecondUpdates == { <<Meta("r1", "fallback.js", None, FALSE, <<"x">>)>> }

SecondOutputs == { <<[id |-> "o1", items |-> items]>> : items \in {<<"x", "y">>, <<"y", "x">>} }

InitSecond ==
    \E L \in SecondRegistries : InitWith([rendererData |-> L, staticPreloadsData |-> <<>>])

NextSecond ==
    \/ SetupDone
    \/ \E no \in SecondOutputs : outputs = <<>> /\ MsgOutputChanged(0, 0, no)
    \/ \E L \in SecondUpdates : MsgUpdateRenderers(L)
    \/ \E mimeType \in {"y", "z"} : MsgChangePreferredMimetype(mimeType)
    \/ RenderStep

SpecSecond == InitSecond /\ [][NextSecond]_vars

(* ========================== renderer messaging ========================= *)

MessagingRegistries ==
    { <<Meta("r1", "ok.js", None, TRUE, <<"x">>)>>,
      <<Meta("r1", "ok.js", None, FALSE, <<"x">>)>>,
      <<Meta("r1", "ok.js", None, FALSE, <<"x">>), Meta("r2", "ok2.js", None, TRUE, <<"y">>)>> }

MessagingOutputs ==
    { <<[id |-> "o1", items |-> <<"x">>]>>,
      <<[id |-> "o1", items |-> <<"x">>], [id |-> "o2", items |-> <<"y">>]>> }

InitMessaging ==
    \E L \in MessagingRegistries : InitWith([rendererData |-> L, staticPreloadsData |-> <<>>])

NextMessaging ==
    \/ SetupDone
    \/ \E L \in MessagingRegistries : MsgUpdateRenderers(L)
    \/ \E no \in MessagingOutputs : MsgOutputChanged(0, 0, no)
    \/ \E rendererId \in RendererIds : MsgCustomRendererMessage(rendererId)
    \/ \E h \in 1..MaxInst : RendererPosts(h)
    \/ RenderStep

SpecMessaging == InitMessaging /\ [][NextMessaging]_vars

(* ================= one outputChanged message and what follows ========== *)

OneMessageRegistries ==
    { <<>>, <<BaseMeta("r1")>>,
      <<Meta("r1", "fallback.js", None, FALSE, <<"x">>), Meta("r2", "ok.js", None, FALSE, <<"y">>)>>,
      <<Meta("r1", "img.js", None, FALSE, <<"x">>), Meta("r2", "ok.js", None, FALSE, <<"y">>)>> }

OneMessageOutputs ==
    { <<[id |-> "o1", items |-> <<"x">>]>>,
      <<[id |-> "o1", items |-> <<"x", "y">>], [id |-> "o2", items |-> <<"y">>]>> }

InitOneMessage ==
    \E L \in OneMessageRegistries : InitWith([rendererData |-> L, staticPreloadsData |-> <<>>])

\* the host sends one outputChanged message; the renders it starts run to their ends
NextOneMessage ==
    \/ SetupDone
    \/ \E no \in OneMessageOutputs : renders = <<>> /\ MsgOutputChanged(0, 0, no)
    \/ RenderStep
    \/ ImageStep

SpecOneMessage == InitOneMessage /\ [][NextOneMessage]_vars

(* ============================ the whole script ========================= *)

InitRendererData ==
    { <<BaseMeta("r1")>>, <<Meta("r2", "fallback.js", None, FALSE, <<"y">>), BaseMeta("r1")>> }

InitPreloads == { <<>>, <<"p_badactivate.js">> }

Init ==
    \E L \in InitRendererData, S \in InitPreloads :
        InitWith([rendererData |-> L, staticPreloadsData |-> S])

UpdateLists == { <<>>, <<Meta("r1", "ok2.js", None, FALSE, <<"x", "y">>)>> }

OutputLists ==
    { <<[id |-> "o1", items |-> <<"x">>]>>,
      <<[id |-> "o1", items |-> <<"y", "x">>], [id |-> "o2", items |-> <<"x">>]>> }

Next ==
    \/ SetupDone
    \/ SetupFailed
    \/ \E L \in UpdateLists : MsgUpdateRenderers(L)
    \/ \E deleteStart \in {-1, 0, 1}, deleteCount \in {0, 1}, no \in OutputLists :
           MsgOutputChanged(deleteStart, deleteCount, no)
    \/ \E mimeType \in {"x", "y"} : MsgChangePreferredMimetype(mimeType)
    \/ \E resources \in { <<"p_ok.js">> } : MsgPreload(resources)
    \/ PreloadStep
    \/ RenderStep

Spec == Init /\ [][Next]_vars

(* ---- C1..C3: renderers.updateRendererData ---- *)

RegisteredIds == { instances[h].data.id : h \in Range(renderers) }

\* the Renderer registered under id
Registered(id) == getRenderer([renderers |-> renderers, instances |-> instances], id)

\* the entries of a metadata list that carry id, in list order
EntriesOf(L, id) == SelectSeq(L, LAMBDA m : m.id = id)

\* the Renderers constructed by the last step
Fresh == { fx[i].inst : i \in { j \in DOMAIN fx : fx[j].op = "new Renderer" } }

\* C1: after an updateRenderers message with list L the registry holds exactly the ids
\* occurring in L, each once.
C1_UpdateLeavesExactlyTheNewIds ==
    msg.type = "updateRenderers" =>
        /\ RegisteredIds = { msg.rendererData[i].id : i \in DOMAIN msg.rendererData }
        /\ Cardinality(RegisteredIds) = Len(renderers)

\* C1 witness: an update that both removed an id and added one
C1_Witness ==
    /\ msg.type = "updateRenderers"
    /\ RegisteredIds = {"r2"}
    /\ Fresh # {}

\* C2: an updateRenderers message leaves a registered Renderer alone when the list's
\* metadata for its id equals its own in id, entrypoint uri, extends, requiresMessaging and
\* the mimeTypes sequence: the same object stays, with its loaded module and its count of
\* activations.  When the list's metadata for the id differs, a newly constructed Renderer
\* with no module loaded takes its place.
C2_EqualMetadataKeepsTheInstance ==
    [][ msg'.type = "updateRenderers" =>
          \A id \in RegisteredIds :
              LET old == instances[Registered(id)]
                  E == EntriesOf(msg'.rendererData, id)
                  new == Registered(id)'
              IN E # <<>> =>
                   IF \A i \in DOMAIN E : E[i] = old.data
                   THEN /\ new \notin Fresh'
                        /\ instances'[new] = old
                   ELSE /\ new \in Fresh'
                        /\ instances'[new] = NewRenderer(E[Len(E)]) ]_vars

\* C2 witness: after an update a Renderer with a loaded module is still registered
C2_Witness ==
    /\ msg.type = "updateRenderers"
    /\ \E h \in Range(renderers) : instances[h].api /\ h \notin Fresh

\* C3: a Renderer with a loaded module that leaves the registry (its id is
\* removed, or another Renderer is registered under its id) has the disposeOutputItem
\* hook of its module called in that step.
C3_LeavingRendererIsDisposed ==
    [][ \A id \in RegisteredIds :
          (/\ instances[Registered(id)].api
           /\ (id \notin RegisteredIds' \/ Registered(id)' \in Fresh'))
          => \E i \in DOMAIN fx' : /\ fx'[i].op = "disposeOutputItem"
                                   /\ instances'[fx'[i].inst].data.id = id ]_vars

(* ---- C6..C9: renderers.render ---- *)

Reg == [renderers |-> renderers, instances |-> instances]

\* the renderer findRenderer gives an item of this MIME type when no id is preferred
RendererFor(mime) == findRenderer(Reg, None, mime)

ModuleOf(h) == RendererModuleKind(instances[h].data.uri)

\* the module of h loads and activates
Loads(h) == ModuleOf(h) \notin {"importFails", "activateThrows"}

ErrorBlocks == {"noRenderer", "noFallback"}

Done(r) == renders[r].pc = "done"

Out(r) == outputObjs[renders[r].out]

\* C6: an Output with items [A(mime a), B(mime b)], a renderer for a that always throws the
\* fallback error and a renderer for b that renders; render with no preferred MIME type and
\* no preferred renderer id, its signal never aborted: once render has ended, the Output's
\* renderer is the renderer for b and the mount holds B's content, not an error block.
C6_FallsBackToTheSecondItem ==
    \A r \in DOMAIN renders :
        LET o == Out(r)
            a == o.allItems[1]
            b == o.allItems[2]
        IN (/\ Done(r)
            /\ ~renders[r].aborted
            /\ renders[r].prefMime = None /\ renders[r].prefId = None
            /\ Len(o.allItems) = 2 /\ a # b
            /\ RendererFor(a) # NoRef /\ RendererFor(b) # NoRef
            /\ Loads(RendererFor(a)) /\ Loads(RendererFor(b))
            /\ RenderOutcome(instances[RendererFor(a)].data.uri, a) = "fallback"
            /\ RenderOutcome(instances[RendererFor(b)].data.uri, b) = "ok")
           => /\ renders[r].res = "success"
              /\ o.renderer = RendererFor(b)
              /\ o.mount = Mount("content", 2)

\* C6 witness: such a render has ended, with two different renderer objects involved
C6_Witness ==
    \E r \in DOMAIN renders :
        /\ Done(r) /\ ~renders[r].aborted /\ renders[r].prefMime = None
        /\ Out(r).allItems = <<"x", "y">>
        /\ RendererFor("x") # NoRef /\ RendererFor("y") # NoRef
        /\ RendererFor("x") # RendererFor("y")
        /\ ModuleOf(RendererFor("x")) = "fallback"
        /\ ModuleOf(RendererFor("y")) = "ok"

\* no registered renderer lists the MIME type of any item of the Output
NothingMatches(o) ==
    \A h \in Range(renderers), i \in DOMAIN o.allItems :
        \A j \in DOMAIN instances[h].data.mimeTypes :
            instances[h].data.mimeTypes[j] # o.allItems[i]

\* C7: when no registered renderer lists the MIME type of any item of the Output, render
\* ends at once: the mount holds the 'no renderer found' block and nothing else, no module
\* was imported, activated or asked to render, the Output's renderer is unset and
\* onRenderCompleted was not called.
C7_NoRendererFound ==
    \A r \in DOMAIN renders :
        NothingMatches(Out(r)) =>
            /\ Done(r) /\ renders[r].res = "noRenderer"
            /\ Out(r).mount = Mount("noRenderer", renders[r].item)
            /\ Out(r).renderer = NoRef
            /\ ~renders[r].completed
            /\ \A h \in Range(renderers) : ~instances[h].api /\ instances[h].activations = 0
            /\ \A i \in DOMAIN fx : fx[i].op \notin {"activate", "renderOutputItem",
                                                    "onRenderCompleted", "post"}

\* C7 witness: a render of an Output none of whose items has a renderer, in a registry that
\* is not empty
C7_Witness ==
    \E r \in DOMAIN renders :
        /\ NothingMatches(Out(r)) /\ renderers # <<>> /\ Len(Out(r).allItems) > 1
        /\ Done(r)

\* the signal was aborted when the primary attempt had failed with the fallback error and
\* render had not yet gone on
AbortedAfterPrimary(r) == renders[r].abortAt = <<"failed", 0>>

ThrowsFatal(r) ==
    \/ /\ renders[r].pc = "import"
       /\ ModuleOf(renders[r].rend) \in {"importFails", "activateThrows"}
    \/ /\ renders[r].pc = "loaded"
       /\ RenderOutcome(instances[renders[r].rend].data.uri,
                        Out(r).allItems[Attempted(renders[r])]) = "fatal"

\* C9: when an attempt throws an error that is not the fallback error while the signal is
\* not aborted, render rejects there: no error block is written, the Output's renderer
\* stays as it was, onRenderCompleted is not called and nothing is posted; and a rejected
\* invocation takes no further step.
C9_FatalErrorPropagates ==
    [][ \A r \in DOMAIN renders :
          /\ (ThrowsFatal(r) /\ ~renders[r].aborted /\ renders'[r].pc # renders[r].pc)
             => /\ renders'[r].pc = "done" /\ renders'[r].res = "rejected"
                /\ outputObjs'[renders'[r].out].mount.kind \notin ErrorBlocks
                /\ outputObjs'[renders'[r].out].renderer = NoRef
                /\ ~renders'[r].completed
                /\ \A i \in DOMAIN fx' : fx'[i].op \notin {"onRenderCompleted", "post"}
          /\ (Done(r) /\ renders[r].res = "rejected") => renders'[r] = renders[r] ]_vars

\* C9 witness: a fallback attempt was rejected by a fatal error of renderOutputItem
C9_Witness ==
    \E r \in DOMAIN renders :
        /\ Done(r) /\ renders[r].res = "rejected" /\ ~renders[r].aborted
        /\ renders[r].cur > 0
        /\ ModuleOf(renders[r].rend) = "fatal"

(* ---- C4: Renderer.getOrLoad ---- *)

\* C4: whatever the interleaving of the getOrLoad calls on a Renderer, the activate
\* function of its module is invoked at most once while the Renderer exists.
C4_ActivatedAtMostOnce ==
    \A h \in 1..MaxInst : instances[h].live => instances[h].activations <= 1

(* ---- C5, C10: kernelPreloads ---- *)

\* the load calls made for uri: each created one promise and ran runKernelPreload once
LoadsOf(uri) == { i \in DOMAIN loads : loads[i].uri = uri }

\* C5: however often load is called for a uri (for a static preload or on a 'preload'
\* message), there is one promise and one run of the activation routine for that uri.
C5_LoadedOncePerUri == \A uri \in PreloadUris : Cardinality(LoadsOf(uri)) <= 1

Settled(i) == LoadState(loads, i) # "pending"

\* the sets of load promises on which a call of waitForAllCurrent was made: by load, and by
\* getOrLoad for a render invocation
WaitedSets == { loads[i].deps : i \in DOMAIN loads } \cup { renders[r].deps : r \in DOMAIN renders }

\* C10: the promise of waitForAllCurrent is never rejected, and it is fulfilled exactly
\* when every preload tracked at the call has settled, fulfilled or rejected; a getOrLoad
\* waiting on it goes on only then.
C10_WaitForAllCurrentNeverRejects ==
    /\ [](\A D \in WaitedSets :
            /\ waitForAllCurrent(loads, D) # "rejected"
            /\ waitForAllCurrent(loads, D) = "fulfilled" <=> \A d \in D : Settled(d))
    /\ [][ \A r \in DOMAIN renders :
             (renders[r].pc = "preloads" /\ renders'[r].pc # "preloads")
             => \A d \in renders[r].deps : Settled(d) ]_vars

\* C10 witness: a getOrLoad waits on a promise of waitForAllCurrent that is fulfilled, with
\* a rejected preload and a fulfilled one among those tracked at the call
C10_Witness ==
    \E r \in DOMAIN renders :
        /\ renders[r].pc = "preloads"
        /\ waitForAllCurrent(loads, renders[r].deps) = "fulfilled"
        /\ \E d, e \in renders[r].deps :
              LoadState(loads, d) = "rejected" /\ LoadState(loads, e) = "fulfilled"

(* ---- C11: getOrLoad and the preloads ---- *)

\* the getOrLoad call of invocation r has started the import of the renderer module
PastPreloads(r) == renders[r].pc \in {"import", "activate", "loaded", "attempted", "done"}

\* C11: a renderer module is imported and activated only when every preload tracked at
\* the start of its getOrLoad call has settled; and once these have all settled, rejected
\* ones among them or not, the await of getOrLoad is over: the import is ready to start.
C11_RendererLoadsAfterPreloads ==
    \A r \in DOMAIN renders :
        /\ PastPreloads(r) => \A d \in renders[r].deps : Settled(d)
        /\ (renders[r].pc = "preloads" /\ \A d \in renders[r].deps : Settled(d))
              => PreloadsAwaited(r)

\* C11 witness: a renderer was loaded by a getOrLoad call that had a rejected preload and
\* a fulfilled one to wait for
C11_Witness ==
    \E r \in DOMAIN renders :
        /\ renders[r].deps # {} /\ instances[renders[r].rend].api
        /\ \E d, e \in renders[r].deps :
              LoadState(loads, d) = "rejected" /\ LoadState(loads, e) = "fulfilled"

(* ---- C12: the 'initialized' message ---- *)

\* the 'initialized' messages a step posted
InitializedPosts(f) == { i \in DOMAIN f : f[i].op = "post" /\ f[i].arg = "initialized" }

\* C12: 'initialized' is posted at most once in a run of outputWebviewPreload, and by the
\* step that ends set-up: every static preload has been awaited (its promise is
\* fulfilled) and the message, wheel and focus listeners are installed when it is posted.
C12_InitializedOnceAfterSetup ==
    [][ /\ Cardinality(InitializedPosts(fx')) <= 1
        /\ InitializedPosts(fx') # {} =>
              /\ phase = "preloading" /\ phase' = "running"
              /\ \A i \in statics : LoadState(loads, i) = "fulfilled"
              /\ listeners' = AllListeners
        /\ phase # "preloading" => phase' = phase
        /\ listeners # {} => InitializedPosts(fx') = {} ]_vars

\* C12 witness: 'initialized' has just been posted after two static preloads
C12_Witness ==
    /\ InitializedPosts(fx) # {} /\ phase = "running"
    /\ Cardinality(statics) = 2 /\ loads[1].uri # loads[2].uri

(* ---- C13: notebookStyles ---- *)

\* the names of a styles map, as root properties
SetNames(styles) == { CssName(styles[i].name) : i \in DOMAIN styles }

\* what C13 says of a step that handles a notebookStyles message
StylesReplaced ==
    /\ \A property \in Declared(rootStyle) :
          /\ (StartsWithNotebook(property) /\ property \notin SetNames(msg'.styles))
                => property \notin Declared(rootStyle')
          /\ ~StartsWithNotebook(property)
                => ValueOf(rootStyle', property) = ValueOf(rootStyle, property)
    /\ \A i \in DOMAIN msg'.styles :
          /\ CssName(msg'.styles[i].name) \in Declared(rootStyle')
          /\ ValueOf(rootStyle', CssName(msg'.styles[i].name)) = msg'.styles[i].value

\* C13: after a notebookStyles message with map S, every root property starting with
\* '--notebook-' that was declared before is removed unless S sets it again, every entry
\* (name, value) of S is declared as '--name' with that value, and every root property
\* not starting with '--notebook-' is as it was.
C13_StylesReplaced == [][ msg'.type = "notebookStyles" => StylesReplaced ]_vars

\* every name of the map starts with 'notebook-' and no value is the empty string
NotebookStyles(styles) ==
    \A i \in DOMAIN styles :
        /\ StartsWithNotebook(CssName(styles[i].name))
        /\ styles[i].value # ""

\* C13 amended: the same, for a map S all of whose names start with 'notebook-' and none
\* of whose values is the empty string.
C13_NotebookStylesReplaced ==
    [][ (msg'.type = "notebookStyles" /\ NotebookStyles(msg'.styles)) => StylesReplaced ]_vars

\* C13 witness: a message with such a map has been handled in a document whose root still
\* declares properties of other scripts, and a '--notebook-' property is gone
C13_Witness ==
    /\ msg.type = "notebookStyles" /\ NotebookStyles(msg.styles) /\ Len(msg.styles) = 1
    /\ Declared(rootStyle) = { <<"color">>, <<"--", "foo">>, CssName(msg.styles[1].name) }

(* ---- C14: wheel events ---- *)

\* the Element is a scroll container in the vertical direction
ScrollsY(node) == node.overflowY \in {"auto", "scroll"}

\* the Element still has room to scroll in the direction of the wheel event
HasRoom(node, event) ==
    \/ event.deltaY < 0 /\ ScrollsY(node) /\ node.scrollTop > 0
    \/ event.deltaY > 0 /\ ScrollsY(node)
                        /\ node.scrollTop + node.clientHeight < node.scrollHeight
    \/ event.deltaX # 0 /\ node.roomX

\* the Element can be scrolled at all
Scrollable(node) ==
    \/ ScrollsY(node) /\ node.scrollHeight > node.clientHeight
    \/ node.roomX

ScrollPosts == { i \in DOMAIN fx : fx[i].op = "post did-scroll-wheel" }

\* C14: a wheel event with an Element on its path that still has room to scroll in the
\* direction of the wheel posts no 'did-scroll-wheel' message; a wheel event with no
\* scrollable Element on its path posts exactly one, with the event's deltaX and deltaY.
C14_WheelForwarding ==
    msg.type = "wheel" =>
        LET event == msg.event
        IN /\ (\E i \in DOMAIN event.path : HasRoom(event.path[i], event)) => ScrollPosts = {}
           /\ (\A i \in DOMAIN event.path : ~Scrollable(event.path[i]))
                 => /\ Cardinality(ScrollPosts) = 1
                    /\ \A i \in ScrollPosts :
                          fx[i].arg = [deltaX |-> event.deltaX, deltaY |-> event.deltaY]

(* ------------------------------ C15, C16 ------------------------------- *)

\* the 'didRenderOutput' messages among the effects f
DidRenderPosts(f) == { i \in DOMAIN f : f[i].op = "post" /\ f[i].arg = "didRenderOutput" }

\* render r has ended by showing one of the two error blocks in this step
EndsInErrorBlock(r) ==
    /\ renders'[r].res \in ErrorBlocks
    /\ r \in DOMAIN renders => renders[r].res \notin ErrorBlocks

\* C15: a 'didRenderOutput' is posted only when some render invocation has succeeded, and
\* the step in which a render ends in 'no renderer found' or 'all fallbacks failed' posts
\* no 'didRenderOutput'.
C15_ReportOnlyAfterSuccess ==
    /\ [](DidRenderPosts(fx) # {} => \E r \in DOMAIN renders : renders[r].res = "success")
    /\ [][(\E r \in DOMAIN renders' : EndsInErrorBlock(r)) => DidRenderPosts(fx') = {}]_vars

\* a height is posted where one render has succeeded and another has ended in an error block
C15_Witness ==
    /\ DidRenderPosts(fx) # {}
    /\ \E r \in DOMAIN renders : renders[r].res = "success"
    /\ \E r \in DOMAIN renders : renders[r].res \in ErrorBlocks

\* the step has run onRenderCompleted
Completes(f) == \E i \in DOMAIN f : f[i].op = "onRenderCompleted"

\* no image fires any more and no put-off report is waiting to be posted
Quiescent ==
    /\ \A i \in DOMAIN images : images[i].complete
    /\ \A k \in DOMAIN reports : reports[k].resolved = reports[k].images => reports[k].posted

\* C16: the height report of a completion is not posted before every <img> that was in the
\* document and not complete at the completion has fired load or error; and once every
\* image has fired and every report that can be posted has been, every successful render
\* has been followed by a 'didRenderOutput'.
C16_ReportWaitsForImages ==
    /\ \A k \in DOMAIN reports :
           reports[k].posted => \A i \in reports[k].images : images[i].complete
    /\ (Completes(fx) /\ DidRenderPosts(fx) # {}) => DocumentImages(Cur) = {}
    /\ Quiescent => \A r \in DOMAIN renders : renders[r].completed => renders[r].followed

\* two completions waited for the same image, the later report has been posted, the
\* earlier has not, and both renders are followed
C16_Witness ==
    /\ Quiescent
    /\ \E k1, k2 \in DOMAIN reports :
           /\ k1 < k2
           /\ reports[k1].images \cap reports[k2].images # {}
           /\ ~reports[k1].posted
           /\ reports[k2].posted
    /\ \A r \in DOMAIN renders : renders[r].completed /\ renders[r].followed


(* -------------------------------- C17 ---------------------------------- *)

\* the ids of the registry, in Map order
RegistryIds == [p \in DOMAIN renderers |-> instances[renderers[p]].data.id]

\* the outputIds of the output list, in list order
OutputIds == [p \in DOMAIN outputs |-> outputObjs[outputs[p]].outputId]

\* the keys of the preload map
PreloadKeys == { u \in PreloadUris : preloads[u] # NoRef }

\* the synchronous update of the message just handled is complete
UpdateComplete ==
    /\ msg.type = "updateRenderers" =>
           Range(RegistryIds) = { msg.rendererData[i].id : i \in DOMAIN msg.rendererData }
    /\ msg.type = "outputChanged" =>
           LET k == Len(OutputIds) - Len(msg.newOutputs)
           IN /\ k >= 0
              /\ \A i \in DOMAIN msg.newOutputs : OutputIds[k + i] = msg.newOutputs[i].id
    /\ msg.type = "preload" =>
           \A i \in DOMAIN msg.resources : msg.resources[i] \in PreloadKeys
    /\ msg.type = "notebookStyles" =>
           \A i \in DOMAIN msg.styles :
               ValueOf(rootStyle, CssName(msg.styles[i].name)) = msg.styles[i].value

\* C17: a message is handled in one turn: when its handler returns, its update of the
\* registry, the output list, the preload map or the root style is complete, and no later
\* turn that is not itself a message handler (a continuation of a render or of a preload)
\* changes the registry, the output list or the preload map.
C17_HandlersRunToCompletion ==
    /\ []UpdateComplete
    /\ [][msg' = NoMsg => /\ RegistryIds' = RegistryIds
                          /\ OutputIds' = OutputIds
                          /\ PreloadKeys' = PreloadKeys]_vars

\* a preload message has been handled while a render started by an earlier outputChanged
\* message is still waiting, and both updates are in place
C17_Witness ==
    /\ msg.type = "preload"
    /\ Len(msg.resources) = 2
    /\ \E r \in DOMAIN renders : renders[r].pc = "preloads"
    /\ OutputIds = <<"o1">>


(* -------------------------------- C18 ---------------------------------- *)

\* C18: no two Outputs of the output list have the same outputId.
C18_OutputIdsUnique ==
    \A p, q \in DOMAIN outputs : OutputIds[p] = OutputIds[q] => p = q


(* -------------------------------- C19 ---------------------------------- *)

\* the positions of the output list an outputChanged message names for deletion
DeletedRange(m) ==
    { p \in DOMAIN outputs : m.deleteStart + 1 <= p /\ p <= m.deleteStart + m.deleteCount }

\* the position the q-th Output that is not deleted had before the message
KeptPosition(m, q) == IF q <= m.deleteStart THEN q ELSE q + Cardinality(DeletedRange(m))

\* the Outputs of the range are gone from the list, the others have kept their order
RangeRemoved(m) ==
    LET n == Len(outputs) - Cardinality(DeletedRange(m))
    IN /\ Len(outputs') = n + Len(m.newOutputs)
       /\ \A q \in 1..n : OutputIds'[q] = OutputIds[KeptPosition(m, q)]

\* the renderer of each rendered Output of the range is asked to dispose the item it rendered
RangeDisposed(m) ==
    \A p \in DeletedRange(m) :
        LET o == outputObjs[outputs[p]]
        IN (o.renderer # NoRef /\ o.mount.kind = "content") =>
               \E i \in DOMAIN fx' : /\ fx'[i].op = "disposeOutputItem"
                                     /\ fx'[i].arg # None
                                     /\ fx'[i].arg = o.mount.item

\* the Outputs outside the range are as they were
OthersUnchanged(m) ==
    \A q \in 1..(Len(outputs) - Cardinality(DeletedRange(m))) :
        LET before == outputObjs[outputs[KeptPosition(m, q)]]
            after == outputObjs'[outputs'[q]]
        IN /\ after.mount = before.mount
           /\ after.attached = before.attached
           /\ after.allItems = before.allItems

\* C19: an outputChanged message that deletes a range removes every Output of the range
\* from the list and has the renderer that rendered it asked to dispose the item it
\* rendered; the Outputs outside the range are left as they were.
C19_DeletedRangeDestroyed ==
    [][ msg'.type = "outputChanged" =>
            /\ RangeRemoved(msg')
            /\ RangeDisposed(msg')
            /\ OthersUnchanged(msg') ]_vars


(* -------------------------------- C20 ---------------------------------- *)

\* the content a render leaves in an element before its first await: nothing, or the
\* error block for an item no renderer takes
ClearedMounts(o) == { EmptyMount } \cup { Mount("noRenderer", k) : k \in DOMAIN o.allItems }

\* C20: a changePreferredMimetype message starts one render invocation for every Output of
\* the list, in list order, with the message's mimeType as preferred MIME type, no
\* preferred renderer id and a signal that is not aborted, and what the element of each
\* Output held before is gone.
C20_EveryOutputRerendered ==
    [][ msg'.type = "changePreferredMimetype" =>
            /\ Len(outputs') = Len(outputs)
            /\ Len(renders') = Len(renders) + Len(outputs)
            /\ \A p \in DOMAIN outputs' :
                   LET r == renders'[Len(renders) + p]
                       o == outputObjs'[outputs'[p]]
                   IN /\ r.out = outputs'[p]
                      /\ r.prefMime = msg'.mimeType
                      /\ r.prefId = None
                      /\ ~r.aborted
                      /\ o.outputId = OutputIds[p]
                      /\ o.mount \in ClearedMounts(o) ]_vars

\* a message for MIME type y has been handled where two Outputs are live and both had been
\* rendered or given an error block; the first now renders its item of type y
C20_Witness ==
    /\ msg.type = "changePreferredMimetype" /\ msg.mimeType = "y"
    /\ Len(outputs) = 2 /\ Len(renders) = 4
    /\ renders[1].pc = "done" /\ renders[2].pc = "done"
    /\ renders[3].item = 2 /\ renders[4].item = 1


(* ------------------------------ C21, C22 ------------------------------- *)

\* the effects of the last step with operation op
Effects(op) == { i \in DOMAIN fx : fx[i].op = op }

\* C21: a Renderer whose metadata has requiresMessaging = false never posts a
\* 'customRendererMessage' and never has a message delivered to its module; for a Renderer
\* with requiresMessaging = true every postMessage call posts exactly one
\* 'customRendererMessage', tagged with the id of that Renderer.
C21_ChannelOnlyWithRequiresMessaging ==
    /\ \A i \in Effects("post customRendererMessage") \cup Effects("onDidReceiveMessage") :
           instances[fx[i].inst].data.requiresMessaging
    /\ \A i \in Effects("post customRendererMessage") :
           fx[i].arg = instances[fx[i].inst].data.id
    /\ \A h \in 1..MaxInst :
           Cardinality({ i \in Effects("post customRendererMessage") : fx[i].inst = h })
             = Cardinality({ i \in Effects("context.postMessage") : fx[i].inst = h })

\* a message for r1 has been handled while the registered r1, loaded and activated, requires
\* no messaging, and nothing was delivered
C21_Witness ==
    /\ msg.type = "customRendererMessage" /\ msg.rendererId = "r1"
    /\ \E h \in Range(renderers) : /\ instances[h].data.id = "r1"
                                   /\ ~instances[h].data.requiresMessaging
                                   /\ instances[h].api
    /\ fx = <<>>

\* the Renderer registered under id, NoRef when there is none
RegisteredUnder(id) == getRenderer([renderers |-> renderers, instances |-> instances], id)

\* C22: a customRendererMessage with rendererId r is delivered to the listeners of the
\* Renderer registered under r and to nothing else, leaves the registry, the output list
\* and the preload map as they are, and has no effect when no Renderer is registered
\* under r.
C22_DeliveredToTheRegisteredRenderer ==
    /\ [](msg.type = "customRendererMessage" =>
            /\ \A i \in DOMAIN fx : /\ fx[i].op = "onDidReceiveMessage"
                                    /\ fx[i].inst = RegisteredUnder(msg.rendererId)
            /\ RegisteredUnder(msg.rendererId) = NoRef => fx = <<>>
            /\ RegisteredUnder(msg.rendererId) # NoRef =>
                   Len(fx) = instances[RegisteredUnder(msg.rendererId)].channels)
    /\ [][msg'.type = "customRendererMessage" =>
              /\ RegistryIds' = RegistryIds
              /\ OutputIds' = OutputIds
              /\ PreloadKeys' = PreloadKeys
              /\ \A p \in DOMAIN renderers :
                     instances'[renderers'[p]] = instances[renderers[p]]]_vars

\* a message for r2 has been delivered while r1 is registered too
C22_Witness ==
    /\ msg.type = "customRendererMessage" /\ msg.rendererId = "r2"
    /\ Len(renderers) = 2
    /\ Len(fx) = 1


(* -------------------------------- C23 ---------------------------------- *)

\* an element the user types text into: a <textarea> or an <input> of a text type
TextInput(target) ==
    \/ target.tag = "textarea"
    \/ target.tag = "input" /\ target.type \in {"text", "password", "search"}

FocusPosts == { i \in DOMAIN fx : fx[i].op = "post inputFocusChanged" }

\* C23: a focusin event on a text-input element posts one 'inputFocusChanged' with
\* focused = true, a focusout event on one posts one with focused = false, and a focus
\* event on any other element posts nothing.
C23_FocusOfTextInputsForwarded ==
    msg.type \in {"focusin", "focusout"} =>
        IF TextInput(msg.event.target)
        THEN /\ Cardinality(FocusPosts) = 1
             /\ \A i \in FocusPosts : fx[i].arg = (msg.type = "focusin")
        ELSE FocusPosts = {}


(* -------------------------------- C24 ---------------------------------- *)

\* C24, for an outputChanged message, in a run in which it is the only message: its
\* handler changes the output list and no other component and posts nothing, and of the
\* steps that follow at most one posts a message to the host (reportHeight adds a
\* ResizeObserver with every message it posts, so none was posted before while there is
\* no observer).
C24_OneMessageOneReply ==
    /\ [][msg'.type = "outputChanged" =>
              /\ RegistryIds' = RegistryIds
              /\ PreloadKeys' = PreloadKeys
              /\ rootStyle' = rootStyle
              /\ fx' = <<>>]_vars
    /\ [][DidRenderPosts(fx') # {} => observers = 0]_vars


(* -------------------------------- C25 ---------------------------------- *)

\* the steps of the last step's effects in which a renderer module was called to render
RenderCalls(f) == { i \in DOMAIN f : f[i].op = "renderOutputItem" }

\* C25: render invocations are started by outputChanged and changePreferredMimetype
\* messages only; an invocation that has terminated stays as it ended; a renderer is asked
\* to render an Output only by an invocation for that Output that had not terminated; and
\* updateRenderers and preload messages start no invocation and call no renderer.
C25_NoAutomaticRetry ==
    [][ /\ Len(renders') # Len(renders)
            => msg'.type \in {"outputChanged", "changePreferredMimetype"}
        /\ \A r \in DOMAIN renders :
               Done(r) => /\ renders'[r].pc = "done"
                          /\ renders'[r].res = renders[r].res
        /\ \A i \in RenderCalls(fx') :
               \E r \in DOMAIN renders : ~Done(r) /\ renders'[r].out = fx'[i].out
        /\ msg'.type \in {"updateRenderers", "preload"}
            => Len(renders') = Len(renders) /\ RenderCalls(fx') = {} ]_vars

\* a render has ended with 'no renderer found', and an updateRenderers message has since
\* registered a renderer for the item; the error block is still there
C25_Witness ==
    /\ msg.type = "updateRenderers"
    /\ \E r \in DOMAIN renders :
           /\ Done(r) /\ renders[r].res = "noRenderer"
           /\ Out(r).mount = Mount("noRenderer", renders[r].item)
           /\ RendererFor(Out(r).allItems[renders[r].item]) # NoRef


(* -------------------------------- C26 ---------------------------------- *)

Max(S) == CHOOSE m \in S : \A n \in S : m >= n

\* the invocations for the Output of invocation n that ended with a rendered item
RenderedBefore(n) ==
    { r \in DOMAIN renders : renders'[r].out = renders'[n].out /\ renders'[r].res = "success" }

\* the positions of the items of the Output of invocation n that have the preferred MIME type
PreferredItems(n) ==
    { i \in DOMAIN outputObjs'[renders'[n].out].allItems :
          outputObjs'[renders'[n].out].allItems[i] = renders'[n].prefMime }

\* C26: the item a render invocation selects is the first item of the preferred MIME type
\* when there is one; otherwise the item rendered by the last successful render of that
\* Output when there was one; otherwise the Output's first item.
C26_RenderedItemSelectedAgain ==
    [][ \A n \in DOMAIN renders' \ DOMAIN renders :
            renders'[n].item =
                IF PreferredItems(n) # {} THEN Min(PreferredItems(n))
                ELSE IF RenderedBefore(n) # {}
                     THEN Attempted(renders'[Max(RenderedBefore(n))])
                ELSE 1 ]_vars


(* -------------------------------- C27 ---------------------------------- *)

\* the positions of the registry whose Renderer has this id
Under(id) == { p \in DOMAIN renderers' : instances'[renderers'[p]].data.id = id }

\* the positions of the registry whose Renderer lists the MIME type and extends nothing
Eligible(mime) ==
    { p \in DOMAIN renderers' :
          /\ mime \in Range(instances'[renderers'[p]].data.mimeTypes)
          /\ instances'[renderers'[p]].data.extends = None }

\* the positions from which the primary renderer of the new invocation n is to come
Choice(n) ==
    IF renders'[n].prefId # None THEN Under(renders'[n].prefId)
    ELSE LET e == Eligible(outputObjs'[renders'[n].out].allItems[renders'[n].item])
         IN IF e = {} THEN {} ELSE {Min(e)}

\* C27: the primary renderer of a render invocation is, with a preferred renderer id, the
\* one Renderer registered under that id, whatever MIME types it lists, or none; without,
\* the first Renderer in registry order that lists the item's MIME type and whose
\* entrypoint extends nothing, or none.  With none the render ends with 'no renderer'.
C27_FindRenderer ==
    [][ \A n \in DOMAIN renders' \ DOMAIN renders :
            /\ Cardinality(Choice(n)) <= 1
            /\ IF Choice(n) = {}
               THEN renders'[n].rend = NoRef /\ renders'[n].res = "noRenderer"
               ELSE /\ renders'[n].rend \in { renderers'[p] : p \in Choice(n) }
                    /\ renders'[n].cur = 0 /\ renders'[n].pc # "done" ]_vars

\* an invocation whose preferred renderer lists neither the item's MIME type nor is
\* free of 'extends', and is taken
C27_Witness ==
    \E r \in DOMAIN renders :
        /\ renders[r].prefId # None /\ renders[r].rend # NoRef /\ renders[r].cur = 0
        /\ instances[renders[r].rend].data.id = renders[r].prefId
        /\ Out(r).allItems[renders[r].item] \notin Range(instances[renders[r].rend].data.mimeTypes)
        /\ instances[renders[r].rend].data.extends # None


(* -------------------------------- C28 ---------------------------------- *)

\* the items of the Output of invocation r
ItemsOf(r) == outputObjs'[renders'[r].out].allItems

\* the items after the one attempted last, but for the item selected first
NotTried(r) == { k \in DOMAIN ItemsOf(r) : k > renders[r].cur /\ k # renders[r].item }

\* the items after the one attempted last whose MIME type is not that of the item selected
OfOtherMime(r) ==
    { k \in DOMAIN ItemsOf(r) :
          k > renders[r].cur /\ ItemsOf(r)[k] # ItemsOf(r)[renders[r].item] }

\* the renderer findRenderer gives an item of this MIME type after the step
RendererThen(mime) == findRenderer([renderers |-> renderers', instances |-> instances'],
                                   None, mime)

\* invocation r goes on after an attempt has settled, the loop having the items of rest
\* left to visit: after a success the renderer is recorded, render-completed is signalled
\* and the invocation ends; after the fallback error the next attempt is on the first
\* item of rest that has a renderer, with that renderer; with nothing left to visit, or no
\* item left that has a renderer, it ends with the 'no fallback' block; with something
\* left and the signal aborted, it ends without another attempt.
LoopStep(r, rest) ==
    LET with == { k \in rest : RendererThen(ItemsOf(r)[k]) # NoRef }
    IN IF ~renders[r].cont
       THEN /\ renders'[r].pc = "done" /\ renders'[r].res = "success"
            /\ renders'[r].completed
            /\ renders'[r].cur = renders[r].cur
            /\ outputObjs'[renders'[r].out].renderer = renders'[r].rend
       ELSE IF rest # {} /\ renders[r].aborted
       THEN renders'[r].pc = "done" /\ renders'[r].res = "cancelled"
       ELSE IF with = {}
       THEN /\ renders'[r].pc = "done" /\ renders'[r].res = "noFallback"
            /\ outputObjs'[renders'[r].out].mount = Mount("noFallback", renders[r].item)
       ELSE /\ renders'[r].pc # "done"
            /\ renders'[r].cur = Min(with)
            /\ renders'[r].rend = RendererThen(ItemsOf(r)[Min(with)])

\* invocation r takes the step that follows a settled attempt
AfterAttempt(r) == renders[r].pc = "attempted" /\ renders'[r].pc # "attempted"

\* C28: after the primary attempt failed with the fallback error the loop visits the
\* items in their order and skips only the one item tried first, also when another item
\* has its MIME type; an item with no renderer is passed over, a fallback error moves on,
\* the first success records the renderer, signals render-completed and stops.
C28_LoopSkipsTheTriedItemOnly ==
    [][ \A r \in DOMAIN renders : AfterAttempt(r) => LoopStep(r, NotTried(r)) ]_vars

\* C28 as the loop is written: it skips every item whose MIME type is that of the item
\* tried first.
C28_LoopSkipsTheMimeTried ==
    [][ \A r \in DOMAIN renders : AfterAttempt(r) => LoopStep(r, OfOtherMime(r)) ]_vars

\* a fallback attempt has rendered the third item after the loop skipped the second,
\* which is not the item tried first but has its MIME type
C28_Witness ==
    \E r \in DOMAIN renders :
        /\ Done(r) /\ renders[r].res = "success"
        /\ renders[r].item = 1 /\ renders[r].cur = 3
        /\ Out(r).allItems[2] = Out(r).allItems[1]
        /\ Out(r).mount = Mount("content", 3)


(* -------------------------------- C29 ---------------------------------- *)

\* the attempt of invocation r is in flight: doRender has been called and has not returned
InFlight(r) == renders[r].pc \in {"preloads", "import", "activate", "loaded"}

\* C29: the attempts of one render invocation are strictly sequential.  The item attempted
\* changes only when the attempt before it has ended with the fallback error, and then to
\* a later item; while an attempt is in flight the invocation stays with its item; and a
\* step calls renderOutputItem at most once, for the item and the Output of an invocation
\* whose attempt is in flight.
C29_AttemptsSequential ==
    [][ /\ \A r \in DOMAIN renders :
               /\ renders'[r].cur # renders[r].cur
                    => /\ renders[r].pc = "attempted" /\ renders[r].cont
                       /\ renders'[r].cur > renders[r].cur
               /\ InFlight(r) => renders'[r].cur = renders[r].cur
        /\ Cardinality(RenderCalls(fx')) <= 1
        /\ \A i \in RenderCalls(fx') :
               \E r \in DOMAIN renders :
                   /\ renders[r].pc = "loaded"
                   /\ renders'[r].pc # "loaded"
                   /\ fx'[i].out = renders'[r].out
                   /\ fx'[i].arg = Attempted(renders[r]) ]_vars

\* the primary attempt has ended with the fallback error, leaving what it drew, and a
\* fallback attempt on a later item is in flight
C29_Witness ==
    \E r \in DOMAIN renders :
        /\ InFlight(r) /\ renders[r].cur > 1
        /\ renders[r].item = 1
        /\ Out(r).mount = Mount("partial", 1)


(* -------------------------------- C30 ---------------------------------- *)

\* invocation r ends in this step with every candidate exhausted, its signal not aborted
Exhausted(r) ==
    /\ ~Done(r) /\ ~renders'[r].aborted
    /\ renders'[r].pc = "done" /\ renders'[r].res = "noFallback"

\* C30: when the primary attempt and every fallback candidate have failed with the
\* fallback error, or no candidate has a renderer, and the signal was never aborted, render
\* ends with the Output's mount holding exactly the 'no fallback' error block in place of
\* what renderers drew, and with the Output's renderer reference unset.
C30_NoFallbackBlockAndNoRenderer ==
    [][ \A r \in DOMAIN renders :
            Exhausted(r) =>
                /\ outputObjs'[renders'[r].out].mount = Mount("noFallback", renders'[r].item)
                /\ outputObjs'[renders'[r].out].renderer = NoRef ]_vars


(* -------------------------------- C31 ---------------------------------- *)

\* C31: the error block shown when every fallback is exhausted holds the failure message
\* and the raw text of the last item for which a renderer attempt was made.
C31_BlockShowsTheLastAttemptedItem ==
    \A r \in DOMAIN renders :
        (Done(r) /\ renders[r].res = "noFallback" /\ ~renders[r].aborted)
           => Out(r).mount = Mount("noFallback", Attempted(renders[r]))


(* -------------------------------- C32 ---------------------------------- *)

\* C32: the promise load(u) returned is not fulfilled before the activation of u has
\* finished and every preload requested before u has settled, and it is rejected only by
\* a failure of u's own activation, never by that of a preload requested earlier.
C32_LoadWaitsForEarlierPreloads ==
    \A j \in DOMAIN loads :
        /\ LoadState(loads, j) = "fulfilled"
              => /\ RunState(loads[j]) = "fulfilled"
                 /\ \A i \in 1..(j - 1) : Settled(i)
        /\ LoadState(loads, j) = "rejected" => RunState(loads[j]) = "rejected"


(* -------------------------------- C33 ---------------------------------- *)

\* the run of the preload of load call i has failed
RunFailed(i) == RunState(loads[i]) = "rejected"

\* C33: a preload whose activation fails blocks nothing.  Set-up never ends without the
\* listeners and 'initialized'; once every static preload has settled, failed ones among
\* them or not, set-up is ready to complete; the failure of one preload makes no other
\* preload fail; and a renderer load waiting for the preloads goes on once they have
\* settled.
C33_PreloadFailureBlocksNothing ==
    /\ phase # "failed"
    /\ (phase = "preloading" /\ \A i \in statics : Settled(i)) => StaticState = "fulfilled"
    /\ \A i \in DOMAIN loads :
           RunFailed(i) => PreloadModuleKind(loads[i].uri) \in {"importFails", "activateFails"}
    /\ \A r \in DOMAIN renders :
           (renders[r].pc = "preloads" /\ \A d \in renders[r].deps : Settled(d))
              => PreloadsAwaited(r)


(* -------------------------------- C34 ---------------------------------- *)

\* C34: once set-up is over, and after every splice the host has sent as an outputChanged
\* message, the iframe's output list has the outputIds of the host's cell.outputs, in the
\* same order.
C34_OutputListMirrorsTheCell == phase = "running" => OutputIds = cell


(* -------------------------------- C35 ---------------------------------- *)

\* invocation q was started for the Output of invocation r after r
Superseded(r, q) == r < q /\ renders[r].out = renders[q].out

\* C35: at most one render invocation is in flight for an Output.  An invocation for an
\* Output for which a later one has been started has ended or has its signal aborted, and
\* from then on it neither writes to the mount nor records a renderer on the Output.
C35_OneInvocationPerOutput ==
    /\ [](\A r, q \in DOMAIN renders :
             Superseded(r, q) => Done(r) \/ renders[r].aborted)
    /\ [][ \A r, q \in DOMAIN renders :
             (Superseded(r, q) /\ renders'[r] # renders[r])
                => /\ outputObjs'[renders'[r].out].mount = outputObjs[renders[r].out].mount
                   /\ renders'[r].res # "success" ]_vars


(* -------------------------------- C36 ---------------------------------- *)

\* the Output of invocation r has been deleted by an outputChanged message
Deleted(r) == ~Out(r).attached

\* C36: for an Output that has been deleted no renderer is called any more, no renderer
\* is recorded on it and no invocation for it signals render-completed, also when its
\* render was suspended at the deletion.
C36_NothingRendersADeletedOutput ==
    [][ \A r \in DOMAIN renders :
            Deleted(r) =>
                /\ \A i \in RenderCalls(fx') : fx'[i].out # renders'[r].out
                /\ outputObjs'[renders'[r].out].renderer = NoRef
                      \/ outputObjs[renders[r].out].renderer # NoRef
                /\ renders'[r].completed = renders[r].completed ]_vars


(* -------------------------------- C37 ---------------------------------- *)

\* The attempt of invocation r threw while the signal was aborted: doRender has returned
\* without asking for a fallback although the attempt drew no content (the renderer left
\* the mount as it was or with what it had drawn before it threw).
ThrewWhileAborted(r) ==
    /\ renders[r].pc = "attempted" /\ ~renders[r].cont /\ renders[r].aborted
    /\ Out(r).mount.kind \in {"empty", "partial"}

Keeps(node, event) ==
    \/ event.deltaY < 0 /\ node.scrollTop > 0
    \/ /\ event.deltaY > 0
       /\ node.scrollHeight - node.scrollTop - node.clientHeight >= 2
       /\ node.overflowY \notin {"hidden", "visible"}

\* C38: handleWheel posts 'did-scroll-wheel', once and with the event's deltas, exactly
\* when the event is not defaultPrevented and no Element from the target up keeps it; an
\* event with deltaY = 0 that is not defaultPrevented is therefore always forwarded.
C38_ForwardedExactlyWhenNoElementKeepsIt ==
    msg.type = "wheel" =>
        LET event == msg.event
            forwarded == /\ ~event.defaultPrevented
                         /\ \A i \in DOMAIN event.path : ~Keeps(event.path[i], event)
        IN /\ ScrollPosts # {} <=> forwarded
           /\ Cardinality(ScrollPosts) <= 1
           /\ \A i \in ScrollPosts :
                  fx[i].arg = [deltaX |-> event.deltaX, deltaY |-> event.deltaY]
           /\ (event.deltaY = 0 /\ ~event.defaultPrevented) => ScrollPosts # {}

\* a wheel down over an Element with one pixel left below, and under it an Element
\* scrolled by 3 with clipped content, has been forwarded
C38_Witness ==
    /\ msg.type = "wheel" /\ msg.event.deltaY > 0 /\ ScrollPosts # {}
    /\ Len(msg.event.path) = 2
    /\ msg.event.path[1] = Node(0, 10, 11, "auto", FALSE)
    /\ msg.event.path[2] = Node(3, 10, 18, "hidden", FALSE)


(* -------------------------------- C39 ---------------------------------- *)

\* the values the blocks of a fenced text hold that are JSON
ValidBlocks(response) == { i \in DOMAIN response.blocks : response.blocks[i].kind # "invalid" }

\* the ids of the array the response is parsed to, the Orchestrator's own left out; none
\* when the response is not parseable or is no array
Selected(response) ==
    LET v == IF response.form = "prose" \/ ValidBlocks(response) = {} THEN Json("invalid", <<>>)
             ELSE response.blocks[Min(ValidBlocks(response))]
        own == { i \in DOMAIN v.ids : v.ids[i] = OrchestratorChatAgentId }
    IN IF v.kind # "array" THEN <<>>
       ELSE [k \in 1..(Len(v.ids) - Cardinality(own)) |->
                v.ids[Min({ i \in DOMAIN v.ids \ own :
                              Cardinality({ j \in (DOMAIN v.ids \ own) : j <= i }) = k })]]

\* the registered agents other than the Orchestrator, by position
OtherAgents(agents) == { i \in DOMAIN agents : agents[i] # OrchestratorChatAgentId }

\* the agent the request is to be delegated to; <<>> when there is none
Delegate(agents, response) ==
    LET first == IF Selected(response) # <<>> THEN Selected(response)[1] ELSE "Universal"
    IN IF first \in Range(agents) THEN <<first>>
       ELSE IF OtherAgents(agents) # {} THEN <<agents[Min(OtherAgents(agents))]>>
       ELSE <<>>

\* C39: the Orchestrator delegates a request to exactly one agent, which is registered and
\* is not the Orchestrator: the first id of the parsed array other than its own if that
\* agent exists; 'Universal' when the response is unparseable, no array or selects nobody;
\* otherwise the first registered agent other than itself; with no such agent it throws
\* and delegates to nobody.
C39_DelegatesToOneRegisteredAgent ==
    call.agent = OrchestratorChatAgentId =>
        LET to == Delegate(call.agents, call.response)
        IN /\ call.outcome.invoked = to
           /\ call.outcome.thrown <=> to = <<>>
           /\ Len(call.outcome.invoked) <= 1
           /\ \A i \in DOMAIN call.outcome.invoked :
                  /\ call.outcome.invoked[i] \in Range(call.agents)
                  /\ call.outcome.invoked[i] # OrchestratorChatAgentId

\* the response names the Orchestrator first and then an agent that is not registered,
\* 'Universal' is not registered either, and the request went to the first registered
\* agent that is not the Orchestrator
C39_Witness ==
    /\ call.agent = OrchestratorChatAgentId
    /\ call.response = [form |-> "fenced",
                        blocks |-> <<Json("invalid", <<>>),
                                     Json("array", <<"Orchestrator", "Ghost">>)>>]
    /\ call.agents = <<"Orchestrator", "Coder">>
    /\ call.outcome.invoked = <<"Coder">>

(* -------------------------------- C40 ---------------------------------- *)

\* every step of getCommands succeeds for this input
AllSucceed(input) ==
    /\ input.lm
    /\ input.systemPrompt \notin {"undefined", ""} /\ input.userPrompt \notin {"undefined", ""}
    /\ input.result.kind = "parsed"

\* C40: getCommands never throws; it returns the empty list when no language model is
\* selected, when a prompt is not resolved, when the request throws and when the response
\* is no parsed response, and the commands of the parsed response when all steps succeed.
C40_EmptyListOnEveryFailure ==
    call.agent = "Terminal" =>
        /\ ~call.outcome.thrown
        /\ call.outcome.returned =
              IF AllSucceed(call.input) THEN call.input.result.commands ELSE <<>>

\* a model was selected and both prompts were resolved, the request threw, and the empty
\* list was returned
C40_Witness ==
    /\ call.agent = "Terminal"
    /\ call.input.lm /\ call.input.systemPrompt = "sys" /\ call.input.userPrompt = "usr"
    /\ call.input.result.kind = "throws"
    /\ call.outcome = [returned |-> <<>>, thrown |-> FALSE, requested |-> TRUE]


====
